---- MODULE Spec2Model ----
(***************************************************************************)
(* A model of notnull-co/cfg: Load, the file overlay, and the per-field    *)
(* resolution driver (environment overlay, required check, defaults).      *)
(*                                                                         *)
(* Go strings are modelled as sequences of one-character strings, so that  *)
(* parsing (strconv) and key formatting (strings.NewReplacer, ToUpper)     *)
(* are computed character by character.                                    *)
(*                                                                         *)
(* Go values are modelled by kind:                                         *)
(*   int, uint   an integer                                                *)
(*   bool        a boolean                                                 *)
(*   string      a sequence of characters                                  *)
(*   *T          << >> for nil, << v >> for a pointer to a T holding v     *)
(***************************************************************************)
EXTENDS Integers, Sequences, FiniteSets, TLC

VARIABLES
    conf,       \* the cfg object: filename, dirs, useEnv, useStrict, ignoreFile, envPrefix
    isPtr,      \* whether the argument of Load is a pointer to a struct
    fs,         \* the file system: the set of paths that exist
    broken,     \* the existing files whose body does not decode
    env,        \* the process environment: a function from names to values
    fields,     \* the flattened fields of the target: path, typ, required, setDefault, defaultVal
    cfg,        \* the target: the value each field's location holds
    cfg0,       \* the target as it was when Load (or processCfg) was entered
    pre,        \* the target as it was when processCfg started
    pc,         \* where the call stands: "load", "files", "process", "done"
    filePaths,  \* Load's local: the paths findCfgFile returned
    fileIdx,    \* Load's loop: how many of filePaths have been applied
    vals,       \* Load's local: the decoded map, shared by all files
    idx,        \* processCfg's loop: how many fields have been processed
    errs,       \* processCfg's local: fieldErrors, keyed by rendered path
    ret,        \* the result: "" while running, "nil", or the error returned
    call,       \* a function called on its own: its name and its arguments
    out         \* what that function returned

vars == << conf, isPtr, fs, broken, env, fields, cfg, cfg0, pre, pc,
           filePaths, fileIdx, vals, idx, errs, ret, call, out >>

----------------------------------------------------------------------------
(* Bounds                                                                  *)

\* The number of leaf fields of the target struct.
NumFields == 2

----------------------------------------------------------------------------
(* Strings                                                                 *)

LowerChars == << "a", "b", "c", "d", "e", "f", "g", "h", "i", "j", "k", "l", "m",
                 "n", "o", "p", "q", "r", "s", "t", "u", "v", "w", "x", "y", "z" >>
UpperChars == << "A", "B", "C", "D", "E", "F", "G", "H", "I", "J", "K", "L", "M",
                 "N", "O", "P", "Q", "R", "S", "T", "U", "V", "W", "X", "Y", "Z" >>
DigitChars == << "0", "1", "2", "3", "4", "5", "6", "7", "8", "9" >>

Range(s) == { s[i] : i \in DOMAIN s }

\* strings.ToUpper on one character
UpperChar(c) ==
    IF c \in Range(LowerChars)
    THEN UpperChars[CHOOSE i \in DOMAIN LowerChars : LowerChars[i] = c]
    ELSE c

ToUpper(s) == [ i \in DOMAIN s |-> UpperChar(s[i]) ]

\* strings.NewReplacer(".", "_", "[", "_", "]", "").Replace
RECURSIVE ReplaceKey(_)
ReplaceKey(s) ==
    IF s = << >> THEN << >>
    ELSE LET c == Head(s)
             r == ReplaceKey(Tail(s))
         IN  IF c = "." \/ c = "[" THEN << "_" >> \o r
             ELSE IF c = "]" THEN r
             ELSE << c >> \o r

----------------------------------------------------------------------------
(* strconv                                                                 *)

IsDigits(s) == Len(s) > 0 /\ \A i \in DOMAIN s : s[i] \in Range(DigitChars)

DigitVal(c) == (CHOOSE i \in DOMAIN DigitChars : DigitChars[i] = c) - 1

RECURSIVE DigitsVal(_)
DigitsVal(s) ==
    IF s = << >> THEN 0
    ELSE 10 * DigitsVal(SubSeq(s, 1, Len(s) - 1)) + DigitVal(s[Len(s)])

\* 2^63 and 2^64 in decimal: the limits of strconv's bitSize 64
IntLimit == << "9", "2", "2", "3", "3", "7", "2", "0", "3", "6",
               "8", "5", "4", "7", "7", "5", "8", "0", "8" >>
UintLimit == << "1", "8", "4", "4", "6", "7", "4", "4", "0", "7",
                "3", "7", "0", "9", "5", "5", "1", "6", "1", "6" >>

RECURSIVE StripZeros(_)
StripZeros(s) ==
    IF Len(s) > 1 /\ s[1] = "0" THEN StripZeros(Tail(s)) ELSE s

\* a < b for two decimal numerals without leading zeros
RECURSIVE DecLess(_, _)
DecLess(a, b) ==
    IF Len(a) # Len(b) THEN Len(a) < Len(b)
    ELSE IF a = << >> THEN FALSE
    ELSE IF a[1] # b[1] THEN DigitVal(a[1]) < DigitVal(b[1])
    ELSE DecLess(Tail(a), Tail(b))

\* strconv.ParseUint(val, 10, 64): digits only, no sign; a range error at 2^64
ParseUint(s) ==
    IF ~IsDigits(s) THEN [ok |-> FALSE, v |-> 0]
    ELSE IF ~DecLess(StripZeros(s), UintLimit) THEN [ok |-> FALSE, v |-> 0]
    ELSE [ok |-> TRUE, v |-> DigitsVal(s)]

\* strconv.ParseInt(val, 10, 64): an optional sign, then digits; a range error
\* outside -2^63 .. 2^63-1
ParseInt(s) ==
    LET neg  == Len(s) > 0 /\ s[1] = "-"
        rest == IF Len(s) > 0 /\ (s[1] = "+" \/ s[1] = "-") THEN Tail(s) ELSE s
        mag  == StripZeros(rest)
    IN  IF ~IsDigits(rest) THEN [ok |-> FALSE, v |-> 0]
        ELSE IF ~neg /\ ~DecLess(mag, IntLimit) THEN [ok |-> FALSE, v |-> 0]
        ELSE IF neg /\ ~DecLess(mag, IntLimit) /\ mag # IntLimit THEN [ok |-> FALSE, v |-> 0]
        ELSE [ok |-> TRUE, v |-> IF neg THEN 0 - DigitsVal(rest) ELSE DigitsVal(rest)]

TrueLits == { << "1" >>, << "t" >>, << "T" >>, << "T", "R", "U", "E" >>,
              << "t", "r", "u", "e" >>, << "T", "r", "u", "e" >> }
FalseLits == { << "0" >>, << "f" >>, << "F" >>, << "F", "A", "L", "S", "E" >>,
               << "f", "a", "l", "s", "e" >>, << "F", "a", "l", "s", "e" >> }

\* strconv.ParseBool(val)
ParseBool(s) ==
    IF s \in TrueLits THEN [ok |-> TRUE, v |-> TRUE]
    ELSE IF s \in FalseLits THEN [ok |-> TRUE, v |-> FALSE]
    ELSE [ok |-> FALSE, v |-> FALSE]

----------------------------------------------------------------------------
(* Types and values                                                        *)

\* "map" stands for the kinds setValue has no rule for
Types == { "int", "uint", "bool", "string", "*int", "*bool", "map" }

\* the pointer and slice types of the model, and the integer kinds by width
PtrTypes == { "*int", "*bool" }
SliceTypes == { "[]int", "[]uint", "[]string", "[]bool" }
IntKinds == { "int", "int8", "int16" }
UintKinds == { "uint", "uint8", "uint16" }

\* reflect.Value.Kind
Kind(t) ==
    IF t \in PtrTypes THEN "ptr"
    ELSE IF t \in SliceTypes THEN "slice"
    ELSE t

\* reflect.Type.Elem of a pointer or slice type
Elem(t) ==
    CASE t = "*int"     -> "int"
      [] t = "*bool"    -> "bool"
      [] t = "[]int"    -> "int"
      [] t = "[]uint"   -> "uint"
      [] t = "[]string" -> "string"
      [] t = "[]bool"   -> "bool"

\* reflect.Zero / reflect.New(t).Elem(): the zero value of a type
ZeroOf(t) ==
    CASE Kind(t) \in IntKinds  -> 0
      [] Kind(t) \in UintKinds -> 0
      [] Kind(t) = "bool"      -> FALSE
      [] Kind(t) = "string"    -> << >>
      [] Kind(t) = "ptr"       -> << >>
      [] Kind(t) = "slice"     -> << >>
      [] Kind(t) = "map"       -> << >>

\* isZero: empty string, numeric zero, false, nil pointer, empty sequence
isZero(t, v) ==
    CASE Kind(t) \in IntKinds  -> v = 0
      [] Kind(t) \in UintKinds -> v = 0
      [] Kind(t) = "bool"      -> v = FALSE
      [] Kind(t) = "string"    -> Len(v) = 0
      [] Kind(t) = "ptr"       -> v = << >>
      [] Kind(t) = "slice"     -> Len(v) = 0
      [] Kind(t) = "map"       -> Len(v) = 0

\* the width in bits of an integer kind (int and uint are 64 bits wide)
Bits(k) ==
    CASE k \in { "int8", "uint8" }   -> 8
      [] k \in { "int16", "uint16" } -> 16
      [] k \in { "int", "uint" }     -> 64

\* reflect.Value.SetInt(x) on a location of kind k: x converted to the kind's
\* width, which keeps the low bits (x comes from a 64-bit parse)
SetInt(k, x) ==
    IF Bits(k) = 64 THEN x
    ELSE LET m == 2 ^ Bits(k)
         IN  ((x + m \div 2) % m) - m \div 2

\* reflect.Value.SetUint(x) on a location of kind k
SetUint(k, x) ==
    IF Bits(k) = 64 THEN x ELSE x % (2 ^ Bits(k))

----------------------------------------------------------------------------
(* The coercion engine                                                     *)

\* the index at which the bracket opened at s[1] is closed, 0 if it never is
RECURSIVE CloseOf(_, _, _)
CloseOf(s, i, depth) ==
    IF i > Len(s) THEN 0
    ELSE IF s[i] = "[" THEN CloseOf(s, i + 1, depth + 1)
    ELSE IF s[i] = "]" THEN (IF depth = 1 THEN i ELSE CloseOf(s, i + 1, depth - 1))
    ELSE CloseOf(s, i + 1, depth)

\* the tokens of s from index i on: a comma outside every bracket pair ends a token
RECURSIVE SplitTop(_, _, _, _, _)
SplitTop(s, i, depth, cur, acc) ==
    IF i > Len(s) THEN Append(acc, cur)
    ELSE IF s[i] = "," /\ depth = 0 THEN SplitTop(s, i + 1, 0, << >>, Append(acc, cur))
    ELSE IF s[i] = "[" THEN SplitTop(s, i + 1, depth + 1, Append(cur, s[i]), acc)
    ELSE IF s[i] = "]" /\ depth > 0 THEN SplitTop(s, i + 1, depth - 1, Append(cur, s[i]), acc)
    ELSE SplitTop(s, i + 1, depth, Append(cur, s[i]), acc)

\* the tokens of s from index i on, every comma ending a token
RECURSIVE SplitAll(_, _, _, _)
SplitAll(s, i, cur, acc) ==
    IF i > Len(s) THEN Append(acc, cur)
    ELSE IF s[i] = "," THEN SplitAll(s, i + 1, << >>, Append(acc, cur))
    ELSE SplitAll(s, i + 1, Append(cur, s[i]), acc)

\* stringSlice with every comma ending a token
stringSliceNaive(s) ==
    LET body == IF Len(s) >= 2 /\ s[1] = "[" /\ CloseOf(s, 1, 0) = Len(s)
                THEN SubSeq(s, 2, Len(s) - 1) ELSE s
    IN  IF body = << >> THEN << >> ELSE SplitAll(body, 1, << >>, << >>)

\* stringSlice(s): the raw tokens of a literal shaped like [a,b,c] or a,b,c.
\* One pair of outer brackets is stripped if present; the rest is split on the
\* commas that stand outside every nested bracket pair.
stringSlice(s) ==
    LET body == IF Len(s) >= 2 /\ s[1] = "[" /\ CloseOf(s, 1, 0) = Len(s)
                THEN SubSeq(s, 2, Len(s) - 1) ELSE s
    IN  IF body = << >> THEN << >> ELSE SplitTop(body, 1, 0, << >>, << >>)

RECURSIVE setValue(_, _, _)

\* setSlice that adds the coerced elements to what the slice holds
setSliceAppend(t, v, val) ==
    LET ss == stringSlice(val)
        rs == [ i \in DOMAIN ss |-> setValue(Elem(t), ZeroOf(Elem(t)), ss[i]) ]
    IN  IF \E i \in DOMAIN ss : ~rs[i].ok THEN [ok |-> FALSE, v |-> v]
        ELSE [ok |-> TRUE, v |-> v \o [ i \in DOMAIN ss |-> rs[i].v ]]

\* setSlice(sv, val): a new slice of len(stringSlice(val)) zero elements, each
\* set from its token; sv is assigned the new slice only if every element was set
setSlice(t, v, val) ==
    LET ss == stringSlice(val)
        rs == [ i \in DOMAIN ss |-> setValue(Elem(t), ZeroOf(Elem(t)), ss[i]) ]
    IN  IF \E i \in DOMAIN ss : ~rs[i].ok THEN [ok |-> FALSE, v |-> v]
        ELSE [ok |-> TRUE, v |-> [ i \in DOMAIN ss |-> rs[i].v ]]

\* setValue(fv, val): the outcome is whether it returned nil, and the value the
\* location holds afterwards. A nil pointer is allocated before the pointee is
\* coerced, and stays allocated when that coercion fails.
setValue(t, v, val) ==
    CASE Kind(t) = "ptr" ->
            LET cur == IF v = << >> THEN ZeroOf(Elem(t)) ELSE v[1]
                r   == setValue(Elem(t), cur, val)
            IN  [ok |-> r.ok, v |-> << r.v >>]
      [] Kind(t) = "slice" -> setSlice(t, v, val)
      [] Kind(t) = "bool" ->
            LET b == ParseBool(val)
            IN  IF b.ok THEN [ok |-> TRUE, v |-> b.v] ELSE [ok |-> FALSE, v |-> v]
      [] Kind(t) \in IntKinds ->
            LET i == ParseInt(val)
            IN  IF i.ok THEN [ok |-> TRUE, v |-> SetInt(Kind(t), i.v)]
                ELSE [ok |-> FALSE, v |-> v]
      [] Kind(t) \in UintKinds ->
            LET i == ParseUint(val)
            IN  IF i.ok THEN [ok |-> TRUE, v |-> SetUint(Kind(t), i.v)]
                ELSE [ok |-> FALSE, v |-> v]
      [] Kind(t) = "string" -> [ok |-> TRUE, v |-> val]
      [] OTHER -> [ok |-> FALSE, v |-> v]

\* setValuePtr with a pointee allocated whether or not the pointer is nil
setValuePtrAlwaysNew(t, p, h, val) ==
    LET q  == Len(h) + 1
        h1 == Append(h, ZeroOf(Elem(t)))
        r  == setValue(Elem(t), h1[q], val)
    IN  [ok |-> r.ok, p |-> q, h |-> [h1 EXCEPT ![q] = r.v]]

\* setValue's case reflect.Ptr with the pointees told apart: p is the address
\* the pointer holds (0 for nil) and h the values at the addresses in use.
\* reflect.New takes the next address and puts a zero value there; fv.Elem()
\* is the value at the address the pointer then holds.
setValuePtr(t, p, h, val) ==
    LET q  == IF p = 0 THEN Len(h) + 1 ELSE p
        h1 == IF p = 0 THEN Append(h, ZeroOf(Elem(t))) ELSE h
        r  == setValue(Elem(t), h1[q], val)
    IN  [ok |-> r.ok, p |-> q, h |-> [h1 EXCEPT ![q] = r.v]]

\* setDefaultValue without the refusal of bool
setDefaultValueAllowBool(t, v, val) == setValue(t, v, val)

\* setDefaultValue(fv, val): setValue, except that a location of kind bool is refused
setDefaultValue(t, v, val) ==
    IF Kind(t) = "bool" THEN [ok |-> FALSE, v |-> v]
    ELSE setValue(t, v, val)

----------------------------------------------------------------------------
(* The environment                                                         *)

\* formatEnvKey with "[" removed, as "]" is
formatEnvKeyDropBrackets(f, key) ==
    LET k == ReplaceKey(SelectSeq(key, LAMBDA c : c # "["))
    IN  ToUpper(IF f.envPrefix # << >> THEN f.envPrefix \o << "_" >> \o k ELSE k)

\* formatEnvKey with the prefix left as it is written
formatEnvKeyPathUpper(f, key) ==
    LET k == ToUpper(ReplaceKey(key))
    IN  IF f.envPrefix # << >> THEN f.envPrefix \o << "_" >> \o k ELSE k

\* formatEnvKey with the case of the letters kept
formatEnvKeyKeepCase(f, key) ==
    LET k == ReplaceKey(key)
    IN  IF f.envPrefix # << >> THEN f.envPrefix \o << "_" >> \o k ELSE k

\* formatEnvKey(key)
formatEnvKey(f, key) ==
    LET k == ReplaceKey(key)
    IN  ToUpper(IF f.envPrefix # << >> THEN f.envPrefix \o << "_" >> \o k ELSE k)

\* os.LookupEnv(key) in environment e
LookupEnv(e, key) ==
    IF key \in DOMAIN e THEN [ok |-> TRUE, val |-> e[key]]
    ELSE [ok |-> FALSE, val |-> << >>]

\* setFromEnv(fv, key) in environment e
setFromEnv(f, e, t, v, key) ==
    LET l == LookupEnv(e, formatEnvKey(f, key))
    IN  IF l.ok THEN setValue(t, v, l.val) ELSE [ok |-> TRUE, v |-> v]

----------------------------------------------------------------------------
(* The resolution driver                                                   *)

\* processField without the required check
processFieldNoRequired(f, e, fld, v) ==
    IF fld.required /\ fld.setDefault
    THEN [err |-> "conflict", v |-> v]
    ELSE LET a == IF f.useEnv THEN setFromEnv(f, e, fld.typ, v, fld.path)
                  ELSE [ok |-> TRUE, v |-> v]
         IN  IF ~a.ok THEN [err |-> "env", v |-> a.v]
             ELSE IF fld.setDefault /\ isZero(fld.typ, a.v)
             THEN LET d == setDefaultValue(fld.typ, a.v, fld.defaultVal)
                  IN  IF ~d.ok THEN [err |-> "default", v |-> d.v]
                      ELSE [err |-> "none", v |-> d.v]
             ELSE [err |-> "none", v |-> a.v]

\* processField with the environment consulted only for a location that is zero
processFieldEnvIfZero(f, e, fld, v) ==
    IF fld.required /\ fld.setDefault
    THEN [err |-> "conflict", v |-> v]
    ELSE LET a == IF f.useEnv /\ isZero(fld.typ, v)
                  THEN setFromEnv(f, e, fld.typ, v, fld.path)
                  ELSE [ok |-> TRUE, v |-> v]
         IN  IF ~a.ok THEN [err |-> "env", v |-> a.v]
             ELSE IF fld.required /\ isZero(fld.typ, a.v)
             THEN [err |-> "required", v |-> a.v]
             ELSE IF fld.setDefault /\ isZero(fld.typ, a.v)
             THEN LET d == setDefaultValue(fld.typ, a.v, fld.defaultVal)
                  IN  IF ~d.ok THEN [err |-> "default", v |-> d.v]
                      ELSE [err |-> "none", v |-> d.v]
             ELSE [err |-> "none", v |-> a.v]

\* processField with the default applied whether or not the location is zero
processFieldAlwaysDefault(f, e, fld, v) ==
    IF fld.required /\ fld.setDefault
    THEN [err |-> "conflict", v |-> v]
    ELSE LET a == IF f.useEnv THEN setFromEnv(f, e, fld.typ, v, fld.path)
                  ELSE [ok |-> TRUE, v |-> v]
         IN  IF ~a.ok THEN [err |-> "env", v |-> a.v]
             ELSE IF fld.required /\ isZero(fld.typ, a.v)
             THEN [err |-> "required", v |-> a.v]
             ELSE IF fld.setDefault
             THEN LET d == setDefaultValue(fld.typ, a.v, fld.defaultVal)
                  IN  IF ~d.ok THEN [err |-> "default", v |-> d.v]
                      ELSE [err |-> "none", v |-> d.v]
             ELSE [err |-> "none", v |-> a.v]

\* processField with the conflict of required and default reported only for a
\* location that is zero
processFieldConflictWhenZero(f, e, fld, v) ==
    IF fld.required /\ fld.setDefault /\ isZero(fld.typ, v)
    THEN [err |-> "conflict", v |-> v]
    ELSE LET a == IF f.useEnv THEN setFromEnv(f, e, fld.typ, v, fld.path)
                  ELSE [ok |-> TRUE, v |-> v]
         IN  IF ~a.ok THEN [err |-> "env", v |-> a.v]
             ELSE IF fld.required /\ isZero(fld.typ, a.v)
             THEN [err |-> "required", v |-> a.v]
             ELSE IF fld.setDefault /\ isZero(fld.typ, a.v)
             THEN LET d == setDefaultValue(fld.typ, a.v, fld.defaultVal)
                  IN  IF ~d.ok THEN [err |-> "default", v |-> d.v]
                      ELSE [err |-> "none", v |-> d.v]
             ELSE [err |-> "none", v |-> a.v]

\* processField with the required check made before the environment is read
processFieldRequiredFirst(f, e, fld, v) ==
    IF fld.required /\ fld.setDefault
    THEN [err |-> "conflict", v |-> v]
    ELSE IF fld.required /\ isZero(fld.typ, v)
    THEN [err |-> "required", v |-> v]
    ELSE LET a == IF f.useEnv THEN setFromEnv(f, e, fld.typ, v, fld.path)
                  ELSE [ok |-> TRUE, v |-> v]
         IN  IF ~a.ok THEN [err |-> "env", v |-> a.v]
             ELSE IF fld.setDefault /\ isZero(fld.typ, a.v)
             THEN LET d == setDefaultValue(fld.typ, a.v, fld.defaultVal)
                  IN  IF ~d.ok THEN [err |-> "default", v |-> d.v]
                      ELSE [err |-> "none", v |-> d.v]
             ELSE [err |-> "none", v |-> a.v]

\* processField with the environment step taken whether or not the environment
\* is enabled
processFieldEnvAlways(f, e, fld, v) ==
    IF fld.required /\ fld.setDefault
    THEN [err |-> "conflict", v |-> v]
    ELSE LET a == setFromEnv(f, e, fld.typ, v, fld.path)
         IN  IF ~a.ok THEN [err |-> "env", v |-> a.v]
             ELSE IF fld.required /\ isZero(fld.typ, a.v)
             THEN [err |-> "required", v |-> a.v]
             ELSE IF fld.setDefault /\ isZero(fld.typ, a.v)
             THEN LET d == setDefaultValue(fld.typ, a.v, fld.defaultVal)
                  IN  IF ~d.ok THEN [err |-> "default", v |-> d.v]
                      ELSE [err |-> "none", v |-> d.v]
             ELSE [err |-> "none", v |-> a.v]

\* processField(field) in environment e, the field's location holding v: the
\* error it returns ("none" for nil) and the value the location holds afterwards
processField(f, e, fld, v) ==
    IF fld.required /\ fld.setDefault
    THEN [err |-> "conflict", v |-> v]
    ELSE LET a == IF f.useEnv THEN setFromEnv(f, e, fld.typ, v, fld.path)
                  ELSE [ok |-> TRUE, v |-> v]
         IN  IF ~a.ok THEN [err |-> "env", v |-> a.v]
             ELSE IF fld.required /\ isZero(fld.typ, a.v)
             THEN [err |-> "required", v |-> a.v]
             ELSE IF fld.setDefault /\ isZero(fld.typ, a.v)
             THEN LET d == setDefaultValue(fld.typ, a.v, fld.defaultVal)
                  IN  IF ~d.ok THEN [err |-> "default", v |-> d.v]
                      ELSE [err |-> "none", v |-> d.v]
             ELSE [err |-> "none", v |-> a.v]

\* errs replaced by a map holding the one new entry
recordErrLast(es, path, err) == [ p \in { path } |-> err ]

\* errs[field.path()] = err
recordErr(es, path, err) ==
    [ p \in DOMAIN es \cup { path } |-> IF p = path THEN err ELSE es[p] ]

----------------------------------------------------------------------------
(* The cfg object and its options                                          *)

DefaultFilename == "config.yaml"
DefaultSecondaryFilename == "secret.yaml"
DefaultDir == "."

\* defaultCfg()
defaultCfg ==
    [ filename   |-> << DefaultFilename, DefaultSecondaryFilename >>,
      dirs       |-> << DefaultDir >>,
      useEnv     |-> FALSE,
      useStrict  |-> FALSE,
      ignoreFile |-> FALSE,
      envPrefix  |-> << >> ]

\* the options
IgnoreFile(f) == [f EXCEPT !.ignoreFile = TRUE]
Dirs(f, dirs) == [f EXCEPT !.dirs = dirs]
UseEnv(f, prefix) == [f EXCEPT !.useEnv = TRUE, !.envPrefix = prefix]
UseStrict(f) == [f EXCEPT !.useStrict = TRUE]

----------------------------------------------------------------------------
(* Files                                                                   *)

\* filepath.Join(dir, name)
Join(dir, name) == << dir, name >>

\* fileExists(path) in file system fsys
fileExists(fsys, path) == path \in fsys

\* the candidate paths with the loops exchanged: filenames outside, directories inside
CandidatesNameMajor(f) ==
    [ k \in 1 .. (Len(f.dirs) * Len(f.filename)) |->
        Join(f.dirs[((k - 1) % Len(f.dirs)) + 1],
             f.filename[((k - 1) \div Len(f.dirs)) + 1]) ]

\* the candidate paths in the order findCfgFile's two loops visit them
Candidates(f) ==
    [ k \in 1 .. (Len(f.dirs) * Len(f.filename)) |->
        Join(f.dirs[((k - 1) \div Len(f.filename)) + 1],
             f.filename[((k - 1) % Len(f.filename)) + 1]) ]

\* findCfgFile()
findCfgFile(f, fsys) ==
    SelectSeq(Candidates(f), LAMBDA path : fileExists(fsys, path))

\* a decoded map: the leaf values by field, and whether it holds a key that no
\* field of the target matches
EmptyMap == [set |-> << >>, extra |-> FALSE]

\* decodeFile that passes over a body that does not decode
decodeFileLenient(m, body, bad) ==
    IF bad THEN [ok |-> TRUE, vals |-> m]
    ELSE [ok |-> TRUE,
          vals |-> [set   |-> [ i \in DOMAIN m.set \cup DOMAIN body.set |->
                                 IF i \in DOMAIN body.set THEN body.set[i] ELSE m.set[i] ],
                    extra |-> m.extra \/ body.extra]]

\* decodeFile(vals, file): the decoder adds the body's keys to vals, replacing
\* the keys vals already holds; a body that does not decode is an error
decodeFile(m, body, bad) ==
    IF bad THEN [ok |-> FALSE, vals |-> m]
    ELSE [ok |-> TRUE,
          vals |-> [set   |-> [ i \in DOMAIN m.set \cup DOMAIN body.set |->
                                 IF i \in DOMAIN body.set THEN body.set[i] ELSE m.set[i] ],
                    extra |-> m.extra \/ body.extra]]

\* decodeMap(m, result): every field the map has a key for is assigned, the
\* others are left as they are; ErrorUnused (useStrict) makes an unmatched key an error
decodeMap(f, m, target) ==
    [ok     |-> ~(f.useStrict /\ m.extra),
     target |-> [ i \in DOMAIN target |->
                   IF i \in DOMAIN m.set THEN m.set[i] ELSE target[i] ]]

----------------------------------------------------------------------------
(* The inputs: a target struct, a file system, an environment              *)

\* the rendered path of the i-th leaf: "s.f<i>" for odd i, "a[<i>].b" for even i
PathOf(i) ==
    IF i % 2 = 1 THEN << "s", ".", "f", DigitChars[i + 1] >>
    ELSE << "a", "[", DigitChars[i + 1], "]", ".", "b" >>

\* the value a location of type t starts with: the zero value ("zero"), a
\* non-zero value ("set"), or a non-nil pointer to a zero value ("ptr0")
InitVal(t, iv) ==
    IF iv = "zero" \/ (iv = "ptr0" /\ Kind(t) # "ptr") THEN ZeroOf(t)
    ELSE IF iv = "ptr0" THEN << ZeroOf(Elem(t)) >>
    ELSE CASE t = "int"    -> 5
           [] t = "uint"   -> 5
           [] t = "bool"   -> TRUE
           [] t = "string" -> << "h" >>
           [] t = "*int"   -> << 5 >>
           [] t = "*bool"  -> << TRUE >>
           [] t = "map"    -> << "k" >>

\* One leaf of the target: its declared type and tags, the value it starts
\* with, and whether and to what the environment variable of its path is set.
Case(t, req, def, dv, iv, es, ev) ==
    [typ |-> t, required |-> req, setDefault |-> def, defaultVal |-> dv,
     iv |-> iv, envSet |-> es, envVal |-> ev]

\* a required int, zero, with no environment variable
SmallCase == Case("int", TRUE, FALSE, << >>, "zero", FALSE, << >>)

\* the literals of default tags and environment variables
ProcLiterals == { << "1" >>, << "0" >>, << "x" >>, << >> }

\* the leaves processCfg is checked on
ProcCases ==
    { Case(t, req, dv # << "-" >>, IF dv = << "-" >> THEN << >> ELSE dv, iv,
           ev # << "-" >>, IF ev = << "-" >> THEN << >> ELSE ev) :
        t \in Types, req \in BOOLEAN, dv \in { << "-" >>, << "1" >>, << "x" >> },
        iv \in { "zero", "set", "ptr0" }, ev \in ProcLiterals \cup { << "-" >> } }

\* the leaves Load is checked on: ints, as the files hold ints
LoadCases ==
    { Case("int", req, def, IF def THEN << "9" >> ELSE << >>, "zero",
           ev # << "-" >>, IF ev = << "-" >> THEN << >> ELSE ev) :
        req \in BOOLEAN, def \in BOOLEAN, ev \in { << "-" >>, << "7" >>, << "0" >> } }

\* the leaves that stand beside the leaf under study: a required int, an int
\* with a default, an int with neither
OtherCases ==
    { SmallCase,
      Case("int", FALSE, TRUE, << "1" >>, "zero", FALSE, << >>),
      Case("int", FALSE, FALSE, << >>, "set", FALSE, << >>) }

\* the field list and the target of a struct whose p-th leaf is r and whose
\* other leaves are o[i]
CaseAt(p, r, o, i) == IF i = p THEN r ELSE o[i]

FieldsOf(p, r, o) ==
    [ i \in 1 .. NumFields |->
        [path       |-> PathOf(i),
         typ        |-> CaseAt(p, r, o, i).typ,
         required   |-> CaseAt(p, r, o, i).required,
         setDefault |-> CaseAt(p, r, o, i).setDefault,
         defaultVal |-> CaseAt(p, r, o, i).defaultVal] ]

TargetOf(p, r, o) ==
    [ i \in 1 .. NumFields |->
        InitVal(CaseAt(p, r, o, i).typ, CaseAt(p, r, o, i).iv) ]

\* the environment in which exactly the variable of leaf p is set, if r sets it
EnvOf(f, p, r) ==
    [ k \in (IF r.envSet THEN { formatEnvKey(f, PathOf(p)) } ELSE { }) |-> r.envVal ]

SearchDirs == << DefaultDir, "/etc" >>

AllFiles == { Join(SearchDirs[d], defaultCfg.filename[n]) :
                d \in DOMAIN SearchDirs, n \in DOMAIN defaultCfg.filename }

FileNo(path) ==
    CHOOSE k \in 1 .. 4 :
        \E d \in DOMAIN SearchDirs, n \in DOMAIN defaultCfg.filename :
            /\ path = Join(SearchDirs[d], defaultCfg.filename[n])
            /\ k = 2 * (d - 1) + n

\* The bodies of the files. File k holds the value k for every leaf it sets,
\* except that /etc/config.yaml holds 0 for the first leaf. ./config.yaml and
\* /etc/secret.yaml set every leaf, ./secret.yaml the even ones and
\* /etc/config.yaml the odd ones; ./secret.yaml also holds a key that matches no field.
FileBody(path) ==
    LET k == FileNo(path)
    IN  [set   |-> [ i \in { j \in 1 .. NumFields : k \in { 1, 4 } \/ (j + k) % 2 = 0 } |->
                       IF k = 3 /\ i = 1 THEN 0 ELSE k ],
         extra |-> k = 2]

\* the configurations Load is checked with
LoadConfs ==
    LET a == { defaultCfg, Dirs(defaultCfg, SearchDirs),
               Dirs(defaultCfg, << SearchDirs[2], SearchDirs[1] >>) }
        b == a \cup { UseEnv(f, << "m", "y" >>) : f \in a }
        c == b \cup { IgnoreFile(f) : f \in b }
    IN  c \cup { UseStrict(f) : f \in c }

\* no function is called on its own while Load or processCfg runs
NoCall == [op |-> "none"]

----------------------------------------------------------------------------
(* Load                                                                    *)

InitLoad ==
    \E f \in LoadConfs, ptr \in BOOLEAN, fsys \in SUBSET AllFiles,
       p \in 1 .. NumFields, r \in LoadCases :
        \E bad \in { b \in SUBSET (fsys \cap { Join(DefaultDir, DefaultSecondaryFilename),
                                              Join("/etc", DefaultFilename) }) :
                       Cardinality(b) <= 1 } :
            /\ ~f.useEnv => ~r.envSet
            /\ ~ptr => (p = 1 /\ r = SmallCase)
            /\ conf = f
            /\ isPtr = ptr
            /\ fs = fsys
            /\ broken = bad
            /\ env = EnvOf(f, p, r)
            /\ fields = FieldsOf(p, r, [i \in 1 .. NumFields |-> SmallCase])
            /\ cfg = TargetOf(p, r, [i \in 1 .. NumFields |-> SmallCase])
            /\ cfg0 = TargetOf(p, r, [i \in 1 .. NumFields |-> SmallCase])
            /\ pre = TargetOf(p, r, [i \in 1 .. NumFields |-> SmallCase])
            /\ pc = "load"
            /\ filePaths = << >>
            /\ fileIdx = 0
            /\ vals = EmptyMap
            /\ idx = 0
            /\ errs = << >>
            /\ ret = ""
            /\ call = NoCall
            /\ out = << >>

\* the checks with a missing file an error even when the environment is enabled
sourceChecksNoEnv(f, paths) ==
    IF f.ignoreFile /\ ~f.useEnv THEN "ErrInvalidSources"
    ELSE IF Len(paths) = 0 THEN "ErrFileNotFound"
    ELSE ""

\* Load's checks of its sources, once the target is known to be a pointer to a
\* struct and findCfgFile has returned paths: the error returned, "" for none
sourceChecks(f, paths) ==
    IF f.ignoreFile /\ ~f.useEnv THEN "ErrInvalidSources"
    ELSE IF Len(paths) = 0 /\ ~f.useEnv THEN "ErrFileNotFound"
    ELSE ""

\* Load, up to the loop over the files: the checks of the target and of the sources
LoadEnter ==
    /\ pc = "load"
    /\ IF ~isPtr
       THEN /\ ret' = "notStructPtr"
            /\ pc' = "done"
            /\ UNCHANGED filePaths
       ELSE /\ filePaths' = findCfgFile(conf, fs)
            /\ ret' = sourceChecks(conf, findCfgFile(conf, fs))
            /\ pc' = IF sourceChecks(conf, findCfgFile(conf, fs)) # "" THEN "done"
                     ELSE "files"
    /\ UNCHANGED << call, out, conf, isPtr, fs, broken, env, fields, cfg, cfg0, pre,
                    fileIdx, vals, idx, errs >>

\* one iteration of Load's loop over filePaths: decodeFile, then decodeMap
DecodeFile ==
    /\ pc = "files"
    /\ ~conf.ignoreFile
    /\ fileIdx < Len(filePaths)
    /\ LET path == filePaths[fileIdx + 1]
           d    == decodeFile(vals, FileBody(path), path \in broken)
           m    == decodeMap(conf, d.vals, cfg)
       IN  IF ~d.ok
           THEN /\ ret' = "decodeFile"
                /\ pc' = "done"
                /\ UNCHANGED << vals, cfg, fileIdx >>
           ELSE /\ vals' = d.vals
                /\ cfg' = m.target
                /\ IF ~m.ok
                   THEN ret' = "decodeMap" /\ pc' = "done" /\ UNCHANGED fileIdx
                   ELSE fileIdx' = fileIdx + 1 /\ UNCHANGED << ret, pc >>
    /\ UNCHANGED << call, out, conf, isPtr, fs, broken, env, fields, cfg0, pre,
                    filePaths, idx, errs >>

\* Load calls processCfg, which flattens the target and makes an empty fieldErrors
EnterProcessCfg ==
    /\ pc = "files"
    /\ conf.ignoreFile \/ fileIdx = Len(filePaths)
    /\ pc' = "process"
    /\ pre' = cfg
    /\ idx' = 0
    /\ errs' = << >>
    /\ UNCHANGED << call, out, conf, isPtr, fs, broken, env, fields, cfg, cfg0,
                    filePaths, fileIdx, vals, ret >>

\* one iteration of processCfg's loop over the fields
ProcessField ==
    /\ pc = "process"
    /\ idx < Len(fields)
    /\ LET fld == fields[idx + 1]
           r   == processField(conf, env, fld, cfg[idx + 1])
       IN  /\ cfg' = [cfg EXCEPT ![idx + 1] = r.v]
           /\ errs' = IF r.err # "none" THEN recordErr(errs, fld.path, r.err) ELSE errs
    /\ idx' = idx + 1
    /\ UNCHANGED << call, out, conf, isPtr, fs, broken, env, fields, cfg0, pre, pc,
                    filePaths, fileIdx, vals, ret >>

\* the end of processCfg: the fieldErrors if it holds an entry, else nil
ProcessCfgReturn ==
    /\ pc = "process"
    /\ idx = Len(fields)
    /\ ret' = IF Cardinality(DOMAIN errs) > 0 THEN "fieldErrors" ELSE "nil"
    /\ pc' = "done"
    /\ UNCHANGED << call, out, conf, isPtr, fs, broken, env, fields, cfg, cfg0, pre,
                    filePaths, fileIdx, vals, idx, errs >>

Next ==
    \/ LoadEnter
    \/ DecodeFile
    \/ EnterProcessCfg
    \/ ProcessField
    \/ ProcessCfgReturn

Spec == InitLoad /\ [][Next]_vars

----------------------------------------------------------------------------
(* processCfg called on its own, as the package's tests call it            *)

InitProcess ==
    \E u \in BOOLEAN, p \in 1 .. NumFields, r \in ProcCases,
       o \in [1 .. NumFields -> OtherCases] :
        /\ o[p] = SmallCase
        /\ ~u => ~r.envSet
        /\ r.iv = "ptr0" => Kind(r.typ) = "ptr"
        /\ conf = [defaultCfg EXCEPT !.useEnv = u]
        /\ isPtr = TRUE
        /\ fs = { }
        /\ broken = { }
        /\ env = EnvOf([defaultCfg EXCEPT !.useEnv = u], p, r)
        /\ fields = FieldsOf(p, r, o)
        /\ cfg = TargetOf(p, r, o)
        /\ cfg0 = TargetOf(p, r, o)
        /\ pre = TargetOf(p, r, o)
        /\ pc = "process"
        /\ filePaths = << >>
        /\ fileIdx = 0
        /\ vals = EmptyMap
        /\ idx = 0
        /\ errs = << >>
        /\ ret = ""
        /\ call = NoCall
        /\ out = << >>

NextProcess ==
    \/ ProcessField
    \/ ProcessCfgReturn

SpecProcess == InitProcess /\ [][NextProcess]_vars

----------------------------------------------------------------------------
(* processCfg called a second time on the target the first call left       *)

\* The caller calls processCfg again, on the same target and in the same
\* environment, once the first call has returned: out keeps what the first call
\* left and returned, and the second call starts like the first, with the
\* target flattened afresh and an empty fieldErrors.
ProcessCfgAgain ==
    /\ pc = "done"
    /\ call = NoCall
    /\ call' = [op |-> "again"]
    /\ out' = [cfg |-> cfg, errs |-> errs, ret |-> ret]
    /\ pre' = cfg
    /\ idx' = 0
    /\ errs' = << >>
    /\ ret' = ""
    /\ pc' = "process"
    /\ UNCHANGED << conf, isPtr, fs, broken, env, fields, cfg, cfg0,
                    filePaths, fileIdx, vals >>

NextAgain ==
    \/ ProcessField
    \/ ProcessCfgReturn
    \/ ProcessCfgAgain

SpecAgain == InitProcess /\ [][NextAgain]_vars

----------------------------------------------------------------------------
(* Load run in two environments                                            *)

\* the configurations: a file search over both directories, with the
\* environment not enabled, enabled without a prefix and enabled with one, and
\* each of these with the files ignored
EnvConfs ==
    LET f == Dirs(defaultCfg, SearchDirs)
        b == { f, UseEnv(f, << >>), UseEnv(f, << "m", "y" >>) }
    IN  b \cup { IgnoreFile(g) : g \in b }

\* a variable name that is the key of no field under f: the key leaf p has
\* under the other prefix
OtherName(f, p) ==
    IF f.envPrefix # << >> THEN formatEnvKey(UseEnv(f, << >>), PathOf(p))
    ELSE formatEnvKey(UseEnv(f, << "m", "y" >>), PathOf(p))

\* the process environments: the variable of leaf p unset, "7" or "0", and the
\* variable that is no field's key unset or "7"
EnvsAt(f, p) ==
    { [ k \in ks |-> IF k = OtherName(f, p) THEN << "7" >> ELSE v ] :
        ks \in SUBSET { formatEnvKey(f, PathOf(p)), OtherName(f, p) },
        v \in { << "7" >>, << "0" >> } }

InitEnv ==
    \E f \in EnvConfs, fsys \in SUBSET AllFiles, p \in 1 .. NumFields,
       r \in { c \in LoadCases : ~c.envSet } :
        \E e \in EnvsAt(f, p) :
            /\ conf = f
            /\ isPtr = TRUE
            /\ fs = fsys
            /\ broken = { }
            /\ env = e
            /\ fields = FieldsOf(p, r, [i \in 1 .. NumFields |-> SmallCase])
            /\ cfg = TargetOf(p, r, [i \in 1 .. NumFields |-> SmallCase])
            /\ cfg0 = TargetOf(p, r, [i \in 1 .. NumFields |-> SmallCase])
            /\ pre = TargetOf(p, r, [i \in 1 .. NumFields |-> SmallCase])
            /\ pc = "load"
            /\ filePaths = << >>
            /\ fileIdx = 0
            /\ vals = EmptyMap
            /\ idx = 0
            /\ errs = << >>
            /\ ret = ""
            /\ call = [op |-> "Load", p |-> p]
            /\ out = << >>

\* Load has returned; the same Load (the same options and files, a target as
\* the first one was) is run in another process environment. out keeps what
\* the first run left and returned, call the environment it ran in.
LoadInOtherEnv ==
    /\ pc = "done"
    /\ call.op = "Load"
    /\ \E e \in EnvsAt(conf, call.p) : env' = e
    /\ call' = [op |-> "twin", env |-> env]
    /\ out' = [cfg |-> cfg, errs |-> errs, ret |-> ret]
    /\ cfg' = cfg0
    /\ pre' = cfg0
    /\ pc' = "load"
    /\ filePaths' = << >>
    /\ fileIdx' = 0
    /\ vals' = EmptyMap
    /\ idx' = 0
    /\ errs' = << >>
    /\ ret' = ""
    /\ UNCHANGED << conf, isPtr, fs, broken, fields, cfg0 >>

NextEnv ==
    \/ LoadEnter
    \/ DecodeFile
    \/ EnterProcessCfg
    \/ ProcessField
    \/ ProcessCfgReturn
    \/ LoadInOtherEnv

SpecEnv == InitEnv /\ [][NextEnv]_vars

----------------------------------------------------------------------------
(* What the claims speak of                                                *)

\* field i has been through processField
Processed(i) == pc \in { "process", "done" } /\ i <= idx

\* the environment variable of field i is set and environment resolution is enabled
EnvPresent(i) ==
    conf.useEnv /\ formatEnvKey(conf, fields[i].path) \in DOMAIN env

EnvValue(i) == env[formatEnvKey(conf, fields[i].path)]

\* the error recorded at the path of field i, "none" if there is none
ErrAt(i) ==
    IF fields[i].path \in DOMAIN errs THEN errs[fields[i].path] ELSE "none"

\* the outcome of coercing a literal into a fresh location of type t
Coerce(t, lit) == setValue(t, ZeroOf(t), lit)

\* the value of field i as the environment step leaves it
AfterEnv(i) ==
    IF EnvPresent(i) THEN setValue(fields[i].typ, pre[i], EnvValue(i))
    ELSE [ok |-> TRUE, v |-> pre[i]]

\* the value the literal "1" stands for in each type that has one
OneOf(t) ==
    CASE t = "int"    -> 1
      [] t = "uint"   -> 1
      [] t = "bool"   -> TRUE
      [] t = "string" -> << "1" >>
      [] t = "*int"   -> << 1 >>
      [] t = "*bool"  -> << TRUE >>

----------------------------------------------------------------------------
(* C1 *)

FailsOn(i) == processField(conf, env, fields[i], pre[i]).err # "none"

\* C1: when processCfg returns, every flattened field has been processed, also
\* the ones after a field that failed; the fieldErrors it built holds an entry
\* at the path of each field whose processing failed and at no other path; and
\* it returns nil exactly when no field failed.
C1_AllFailuresCollected ==
    (pc = "done" /\ ret \in { "nil", "fieldErrors" }) =>
        /\ idx = Len(fields)
        /\ \A i \in DOMAIN fields :
              cfg[i] = processField(conf, env, fields[i], pre[i]).v
        /\ DOMAIN errs = { fields[i].path : i \in { j \in DOMAIN fields : FailsOn(j) } }
        /\ \A i \in DOMAIN fields :
              FailsOn(i) => errs[fields[i].path] =
                              processField(conf, env, fields[i], pre[i]).err
        /\ (ret = "nil") <=> (\A i \in DOMAIN fields : ~FailsOn(i))

\* two fields failed, the first of them before the last was processed
C1_Witness ==
    /\ pc = "done"
    /\ ret = "fieldErrors"
    /\ Cardinality(DOMAIN errs) >= 2
    /\ fields[1].path \in DOMAIN errs
    /\ fields[Len(fields)].path \in DOMAIN errs

----------------------------------------------------------------------------
(* C2 *)

\* C2 as stated: a required field that is zero, with no environment override,
\* has a required-validation error at its path; a required field that is
\* non-zero has no required-validation error.
C2_RequiredZeroFailsRequired ==
    \A i \in DOMAIN fields :
        (Processed(i) /\ fields[i].required) =>
            /\ (isZero(fields[i].typ, pre[i]) /\ ~EnvPresent(i)) => ErrAt(i) = "required"
            /\ (~isZero(fields[i].typ, pre[i]) /\ ~EnvPresent(i)) => ErrAt(i) # "required"

\* C2, amended: a required field that is zero, with no environment override,
\* always has an error at its path: the required-validation error, or, if the
\* field also carries a default literal, the error of that conflict. A required
\* field that is non-zero when the check runs has no required-validation error.
C2_RequiredZeroFails ==
    \A i \in DOMAIN fields :
        (Processed(i) /\ fields[i].required) =>
            /\ (isZero(fields[i].typ, pre[i]) /\ ~EnvPresent(i)) =>
                  ErrAt(i) = (IF fields[i].setDefault THEN "conflict" ELSE "required")
            /\ (~isZero(fields[i].typ, pre[i]) /\ ~EnvPresent(i)) =>
                  ErrAt(i) = (IF fields[i].setDefault THEN "conflict" ELSE "none")
            /\ ~isZero(fields[i].typ, cfg[i]) => ErrAt(i) # "required"

\* a required field without a default, zero, its variable unset although the
\* environment is enabled, has failed; beside it a required field that is not zero
C2_Witness ==
    /\ pc = "done"
    /\ conf.useEnv
    /\ \E i \in DOMAIN fields :
          /\ fields[i].required /\ ~fields[i].setDefault
          /\ isZero(fields[i].typ, pre[i]) /\ ~EnvPresent(i)
          /\ ErrAt(i) = "required"
    /\ \E i \in DOMAIN fields :
          /\ fields[i].required /\ ~fields[i].setDefault
          /\ ~isZero(fields[i].typ, pre[i]) /\ ErrAt(i) = "none"

----------------------------------------------------------------------------
(* C3 *)

\* the default step of field i runs: the field carries a default, is not
\* required, and the environment step did not fail
DefaultStepRuns(i) ==
    /\ Processed(i)
    /\ fields[i].setDefault /\ ~fields[i].required
    /\ AfterEnv(i).ok

\* C3 as stated: a field with a default literal, not required: if it is zero
\* when the default step runs it ends up holding the coerced literal (for a
\* literal that coerces into its type); if it is non-zero it is left untouched.
C3_DefaultFillsZero ==
    \A i \in DOMAIN fields :
        DefaultStepRuns(i) =>
            IF isZero(fields[i].typ, AfterEnv(i).v)
            THEN Coerce(fields[i].typ, fields[i].defaultVal).ok =>
                    cfg[i] = Coerce(fields[i].typ, fields[i].defaultVal).v
            ELSE cfg[i] = AfterEnv(i).v

\* C3, amended: as stated, except that a field of kind bool is never filled:
\* its default step fails with a default-application error and leaves it
\* zero; a literal that does not coerce is a default-application error too.
C3_DefaultFillsZeroButBool ==
    \A i \in DOMAIN fields :
        DefaultStepRuns(i) =>
            IF ~isZero(fields[i].typ, AfterEnv(i).v)
            THEN cfg[i] = AfterEnv(i).v /\ ErrAt(i) = "none"
            ELSE IF Kind(fields[i].typ) = "bool"
            THEN cfg[i] = AfterEnv(i).v /\ ErrAt(i) = "default"
            ELSE IF Coerce(fields[i].typ, fields[i].defaultVal).ok
            THEN /\ cfg[i] = Coerce(fields[i].typ, fields[i].defaultVal).v
                 /\ fields[i].defaultVal = << "1" >> => cfg[i] = OneOf(fields[i].typ)
                 /\ ErrAt(i) = "none"
            ELSE ErrAt(i) = "default"

\* a zero int has been filled with its default, and a zero bool with a default
\* has been refused
C3_Witness ==
    /\ pc = "done"
    /\ \E i \in DOMAIN fields :
          /\ DefaultStepRuns(i) /\ fields[i].typ = "int"
          /\ pre[i] = 0 /\ cfg[i] = 1
    /\ \E i \in DOMAIN fields :
          /\ DefaultStepRuns(i) /\ fields[i].typ = "bool"
          /\ fields[i].defaultVal = << "1" >>
          /\ cfg[i] = FALSE /\ ErrAt(i) = "default"

----------------------------------------------------------------------------
(* C4 *)

\* C4 as stated: with the environment enabled, a field whose variable is set
\* (to a value that coerces) holds the coerced value after processing,
\* whatever it held before and whatever default it carries; an absent variable
\* changes nothing and is no error.
C4_EnvOverrides ==
    \A i \in DOMAIN fields :
        (Processed(i) /\ conf.useEnv) =>
            IF EnvPresent(i)
            THEN Coerce(fields[i].typ, EnvValue(i)).ok =>
                    cfg[i] = Coerce(fields[i].typ, EnvValue(i)).v
            ELSE /\ ErrAt(i) # "env"
                 /\ cfg[i] = processField([conf EXCEPT !.useEnv = FALSE], env,
                                          fields[i], pre[i]).v

\* C4, amended: with the environment enabled, for a field that is not both
\* required and defaulted and whose variable is set to a value that coerces,
\* the environment step stores the coerced value whatever the field held
\* before; that is the field's value after processing unless it is the zero
\* value and the field carries a default literal, in which case the default
\* step runs on it. An absent variable changes nothing and is no error.
C4_EnvOverridesNonZero ==
    \A i \in DOMAIN fields :
        (Processed(i) /\ conf.useEnv) =>
            IF EnvPresent(i)
            THEN (Coerce(fields[i].typ, EnvValue(i)).ok
                    /\ ~(fields[i].required /\ fields[i].setDefault)) =>
                    LET c == Coerce(fields[i].typ, EnvValue(i)).v
                    IN  /\ ErrAt(i) # "env"
                        /\ IF ~(fields[i].setDefault /\ isZero(fields[i].typ, c))
                           THEN cfg[i] = c
                           ELSE IF Kind(fields[i].typ) # "bool"
                                   /\ Coerce(fields[i].typ, fields[i].defaultVal).ok
                           THEN cfg[i] = Coerce(fields[i].typ, fields[i].defaultVal).v
                           ELSE cfg[i] = c /\ ErrAt(i) = "default"
            ELSE /\ ErrAt(i) # "env"
                 /\ cfg[i] = processField([conf EXCEPT !.useEnv = FALSE], env,
                                          fields[i], pre[i]).v
                 /\ ErrAt(i) = processField([conf EXCEPT !.useEnv = FALSE], env,
                                            fields[i], pre[i]).err

\* a non-zero int that carries a default has been overwritten from the environment
C4_Witness ==
    /\ pc = "done"
    /\ \E i \in DOMAIN fields :
          /\ EnvPresent(i) /\ fields[i].typ = "int"
          /\ fields[i].setDefault /\ ~fields[i].required
          /\ fields[i].defaultVal = << "x" >>
          /\ EnvValue(i) = << "1" >>
          /\ pre[i] = 5 /\ cfg[i] = 1 /\ ErrAt(i) = "none"

----------------------------------------------------------------------------
(* C6 *)

\* C6: a field that is both required and carries a default literal has the
\* error of that conflict at its path once processed, whatever its value and
\* whether or not its environment variable is set; processCfg then returns
\* the fieldErrors.
C6_RequiredAndDefaultFails ==
    \A i \in DOMAIN fields :
        (Processed(i) /\ fields[i].required /\ fields[i].setDefault) =>
            /\ ErrAt(i) = "conflict"
            /\ pc = "done" => ret = "fieldErrors"

\* such a field, non-zero and with its environment variable set, has failed
C6_Witness ==
    /\ pc = "done"
    /\ \E i \in DOMAIN fields :
          /\ fields[i].required /\ fields[i].setDefault
          /\ ~isZero(fields[i].typ, pre[i])
          /\ EnvPresent(i)
          /\ ErrAt(i) = "conflict"

----------------------------------------------------------------------------
(* What the claims about Load speak of                                     *)

\* processCfg has been entered
Resolving == pc = "process" \/ (pc = "done" /\ ret \in { "nil", "fieldErrors" })

\* Load has returned what processCfg returned
Resolved == pc = "done" /\ ret \in { "nil", "fieldErrors" }

\* no configured directory holds a file of a configured name
NoCandidate ==
    \A d \in DOMAIN conf.dirs, n \in DOMAIN conf.filename :
        Join(conf.dirs[d], conf.filename[n]) \notin fs

\* the three cases of C7
UsageCase ==
    \/ ~isPtr
    \/ conf.ignoreFile /\ ~conf.useEnv
    \/ NoCandidate /\ ~conf.useEnv

\* nothing has been read, flattened, processed or written
Untouched ==
    /\ cfg = cfg0
    /\ fileIdx = 0
    /\ vals = EmptyMap
    /\ idx = 0
    /\ errs = << >>

Max(S) == CHOOSE m \in S : \A x \in S : x <= m
Min(S) == CHOOSE m \in S : \A x \in S : m <= x

\* among the first n discovered files, the ones whose body sets field i
Setters(i, n) ==
    { k \in 1 .. n : i \in DOMAIN FileBody(filePaths[k]).set }

\* the value of field i once the first n discovered files are applied in order
OverlayValue(i, n) ==
    IF Setters(i, n) = { } THEN cfg0[i]
    ELSE FileBody(filePaths[Max(Setters(i, n))]).set[i]

\* the k-th discovered file stops Load: its body does not decode, or
\* useStrict is set and it or an earlier file holds a key that matches no field
DefectAt(k) ==
    \/ filePaths[k] \in broken
    \/ conf.useStrict /\ \E j \in 1 .. k : FileBody(filePaths[j]).extra

DirIdx(path) == CHOOSE d \in DOMAIN conf.dirs : conf.dirs[d] = path[1]
NameIdx(path) == CHOOSE n \in DOMAIN conf.filename : conf.filename[n] = path[2]

----------------------------------------------------------------------------
(* C5 *)

FileSupplied(i) ==
    ~conf.ignoreFile /\ Setters(i, Len(filePaths)) # { }

EnvSupplied(i) ==
    EnvPresent(i) /\ Coerce(fields[i].typ, EnvValue(i)).ok

\* the value the sources leave in field i: the environment's if it supplies
\* one, else the last file's that sets it, else the value the target came with
Supplied(i) ==
    IF EnvSupplied(i) THEN Coerce(fields[i].typ, EnvValue(i)).v
    ELSE IF FileSupplied(i) THEN OverlayValue(i, Len(filePaths))
    ELSE cfg0[i]

\* C5 as stated: after Load, a field with a default literal holds the value
\* the environment supplied, else the value a file supplied, and the default
\* only where neither supplied a value.
C5_DefaultOnlyWhereUnsupplied ==
    Resolved =>
        \A i \in DOMAIN fields :
            (fields[i].setDefault /\ ~fields[i].required) =>
                cfg[i] = (IF EnvSupplied(i) \/ FileSupplied(i) THEN Supplied(i)
                          ELSE Coerce(fields[i].typ, fields[i].defaultVal).v)

\* C5, amended: the precedence is environment > file > default, a zero value
\* counting as not supplied: after Load a field holds the environment's value,
\* else the last file's, and the default literal is applied exactly when that
\* value is the zero value. A non-zero value a source supplied is never
\* replaced by the default; a zero value a source supplied is.
C5_DefaultOnlyWhereZero ==
    Resolved =>
        \A i \in DOMAIN fields :
            ~(fields[i].required /\ fields[i].setDefault) =>
                cfg[i] = (IF fields[i].setDefault /\ isZero(fields[i].typ, Supplied(i))
                          THEN Coerce(fields[i].typ, fields[i].defaultVal).v
                          ELSE Supplied(i))

\* a field with a default, set by a file and by the environment, holds the
\* environment's value
C5_Witness ==
    /\ Resolved
    /\ \E i \in DOMAIN fields :
          /\ fields[i].setDefault /\ ~fields[i].required
          /\ FileSupplied(i) /\ OverlayValue(i, Len(filePaths)) # 0
          /\ EnvSupplied(i)
          /\ cfg[i] = 7

----------------------------------------------------------------------------
(* C7 *)

\* C7 as stated: Load fails, with nothing read, flattened, processed or
\* written, exactly when the target is no pointer to a struct, or files are
\* ignored and the environment is disabled, or no file is found and the
\* environment is disabled; in every other configuration Load proceeds to
\* field resolution.
C7_FailsExactlyOnUsage ==
    pc = "done" =>
        /\ UsageCase => (ret \notin { "nil", "fieldErrors" } /\ Untouched)
        /\ ~UsageCase => ret \in { "nil", "fieldErrors" }

\* C7, amended: Load fails before any file is read, with nothing flattened,
\* processed or written, exactly in the three cases; in every other
\* configuration it goes on to apply the discovered files and, unless one of
\* them stops it with a source error, to field resolution. With the
\* environment enabled and no file found it always reaches field resolution.
C7_FailsEarlyExactlyOnUsage ==
    /\ (pc = "done" /\ UsageCase) =>
          /\ Untouched
          /\ ret = (IF ~isPtr THEN "notStructPtr"
                    ELSE IF conf.ignoreFile THEN "ErrInvalidSources"
                    ELSE "ErrFileNotFound")
    /\ (pc # "load" /\ ~UsageCase) =>
          /\ ret \in { "", "nil", "fieldErrors", "decodeFile", "decodeMap" }
          /\ ret \in { "decodeFile", "decodeMap" } =>
                /\ ~conf.ignoreFile
                /\ \E k \in DOMAIN filePaths : DefectAt(k)
    /\ (pc = "done" /\ isPtr /\ conf.useEnv /\ (NoCandidate \/ conf.ignoreFile)) =>
          ret \in { "nil", "fieldErrors" }

\* with the environment enabled and no file found, Load has resolved the fields
C7_Witness ==
    /\ pc = "done"
    /\ isPtr /\ conf.useEnv /\ ~conf.ignoreFile /\ NoCandidate
    /\ ret \in { "nil", "fieldErrors" }
    /\ idx = Len(fields)

----------------------------------------------------------------------------
(* C8 *)

\* C8: when a discovered file does not decode, or its map does not apply,
\* Load returns that error at once: the files after it are not read, no field
\* is processed, and the target holds what the files before it (and, for a map
\* that does not apply, the file itself) left in it. Without such a file Load
\* returns what processCfg returns.
C8_SourceErrorAborts ==
    (pc = "done" /\ ~UsageCase /\ ~conf.ignoreFile) =>
        IF \E k \in DOMAIN filePaths : DefectAt(k)
        THEN LET k == Min({ j \in DOMAIN filePaths : DefectAt(j) })
                 n == IF filePaths[k] \in broken THEN k - 1 ELSE k
             IN  /\ ret = (IF filePaths[k] \in broken THEN "decodeFile" ELSE "decodeMap")
                 /\ fileIdx = k - 1
                 /\ idx = 0
                 /\ errs = << >>
                 /\ \A i \in DOMAIN fields : cfg[i] = OverlayValue(i, n)
        ELSE ret \in { "nil", "fieldErrors" }

\* the second of three discovered files did not decode: Load stopped there
C8_Witness ==
    /\ pc = "done"
    /\ ret = "decodeFile"
    /\ fileIdx = 1
    /\ Len(filePaths) >= 3
    /\ cfg # cfg0

----------------------------------------------------------------------------
(* C9 *)

----------------------------------------------------------------------------
(* C10 *)

\* C10 as stated: no two of the files Load applies have the same filename:
\* of the same-named files of several directories only the first is used.
C10_FirstMatchPerFilename ==
    \A a, b \in 1 .. fileIdx :
        a # b => filePaths[a][2] # filePaths[b][2]

----------------------------------------------------------------------------
(* The functions called on their own, as the package's tests call them     *)

\* the paths and prefixes formatEnvKey is called with
KeyPaths ==
    { << "l", "o", "g", "g", "e", "r", "s", "[", "0", "]", ".",
         "l", "o", "g", "_", "l", "e", "v", "e", "l" >>,
      << "a", "[", "2", "]", ".", "b" >>,
      << "A", ".", "B" >>,
      << "x", ".", ".", "y", "]" >>,
      << "[", "[", "0", "]", "]" >>,
      << >> }

KeyPrefixes ==
    { << >>, << "m", "y", "a", "p", "p" >>, << "M", "y", ".", "A", "p", "p" >> }

KeyCalls ==
    { [op |-> "formatEnvKey", conf |-> UseEnv(defaultCfg, x), key |-> k] :
        x \in KeyPrefixes, k \in KeyPaths }

\* f.formatEnvKey(key)
FormatEnvKey ==
    /\ pc = "call"
    /\ call.op = "formatEnvKey"
    /\ out' = formatEnvKey(call.conf, call.key)
    /\ pc' = "return"
    /\ UNCHANGED << call, conf, isPtr, fs, broken, env, fields, cfg, cfg0, pre,
                    filePaths, fileIdx, vals, idx, errs, ret >>

\* the literals setValue and setDefaultValue are called with
CoerceLiterals ==
    { << "5" >>, << "0" >>, << "-", "5" >>, << "+", "5" >>, << "1", "2", "7" >>,
      << "1", "2", "8" >>, << "-", "1", "2", "8" >>, << "-", "1", "2", "9" >>,
      << "2", "5", "5" >>, << "2", "5", "6" >>, << "3", "0", "0" >>,
      << "3", "2", "7", "6", "8" >>, << "6", "5", "5", "3", "6" >>,
      UintLimit,
      << "t", "r", "u", "e" >>, << "f", "a", "l", "s", "e" >>, << "1" >>,
      << "x" >>, << "1", ".", "5" >>, << >>,
      << "[", "5", ",", "1", "0", ",", "1", "5", "]" >>,
      << "5", ",", "1", "0", ",", "1", "5" >>,
      << "[", "-", "5", "]" >>,
      << "[", "5", ",", "x", "]" >>,
      << "[", "[", "a", "-", "z", "]", "+", ",", ".", "*", "]" >>,
      << "[", "]" >> }

\* the types setValue and setDefaultValue are called on
CoerceTypes == Types \cup SliceTypes \cup IntKinds \cup UintKinds

\* the value a location of type t holds when setValue is called on it: the
\* zero value ("zero"), a non-zero value ("set"), or a non-nil pointer to a
\* zero value ("ptr0")
CoerceInit(t, iv) ==
    IF t \in Types THEN InitVal(t, iv)
    ELSE IF iv # "set" THEN ZeroOf(t)
    ELSE CASE Kind(t) \in IntKinds \cup UintKinds -> 5
           [] t = "[]int"    -> << 7, 8 >>
           [] t = "[]uint"   -> << 7, 8 >>
           [] t = "[]string" -> << << "h" >> >>
           [] t = "[]bool"   -> << TRUE >>

CoerceCalls ==
    { [op |-> o, typ |-> t, iv |-> iv, val |-> l] :
        o \in { "setValue", "setDefaultValue" }, t \in CoerceTypes,
        iv \in { "zero", "set", "ptr0" }, l \in CoerceLiterals }

\* the literals stringSlice is called with: the literals above between brackets and bare
SliceCalls ==
    { [op |-> "stringSlice", val |-> l] : l \in CoerceLiterals } \cup
    { [op |-> "stringSlice", val |-> << "[" >> \o l \o << "]" >>] : l \in CoerceLiterals }

\* the value the location holds when the call is made
CallV == CoerceInit(call.typ, call.iv)

\* the address a pointer location holds when the call is made (0 for nil), and
\* the values at the addresses in use: the pointee, if there is one, and the
\* pointee of some other pointer
CallPtr == IF CallV = << >> THEN 0 ELSE 1

CallHeap ==
    IF CallV = << >> THEN << InitVal(Elem(call.typ), "set") >>
    ELSE << CallV[1], InitVal(Elem(call.typ), "set") >>

\* f.setValue(fv, val); for a pointer location, also with the pointees told apart
SetValue ==
    /\ pc = "call"
    /\ call.op = "setValue"
    /\ out' = IF Kind(call.typ) = "ptr"
              THEN [ok |-> setValue(call.typ, CallV, call.val).ok,
                    v  |-> setValue(call.typ, CallV, call.val).v,
                    p  |-> setValuePtr(call.typ, CallPtr, CallHeap, call.val).p,
                    h  |-> setValuePtr(call.typ, CallPtr, CallHeap, call.val).h]
              ELSE setValue(call.typ, CallV, call.val)
    /\ pc' = "return"
    /\ UNCHANGED << call, conf, isPtr, fs, broken, env, fields, cfg, cfg0, pre,
                    filePaths, fileIdx, vals, idx, errs, ret >>

\* f.setDefaultValue(fv, val)
SetDefaultValue ==
    /\ pc = "call"
    /\ call.op = "setDefaultValue"
    /\ out' = setDefaultValue(call.typ, CallV, call.val)
    /\ pc' = "return"
    /\ UNCHANGED << call, conf, isPtr, fs, broken, env, fields, cfg, cfg0, pre,
                    filePaths, fileIdx, vals, idx, errs, ret >>

\* stringSlice(val)
StringSlice ==
    /\ pc = "call"
    /\ call.op = "stringSlice"
    /\ out' = stringSlice(call.val)
    /\ pc' = "return"
    /\ UNCHANGED << call, conf, isPtr, fs, broken, env, fields, cfg, cfg0, pre,
                    filePaths, fileIdx, vals, idx, errs, ret >>

InitCall ==
    \E c \in KeyCalls \cup CoerceCalls \cup SliceCalls :
        /\ c.op \in { "setValue", "setDefaultValue" } =>
              (c.iv = "ptr0" => Kind(c.typ) = "ptr")
        /\ call = c
        /\ out = << >>
        /\ pc = "call"
        /\ conf = defaultCfg
        /\ isPtr = TRUE
        /\ fs = { }
        /\ broken = { }
        /\ env = << >>
        /\ fields = << >>
        /\ cfg = << >>
        /\ cfg0 = << >>
        /\ pre = << >>
        /\ filePaths = << >>
        /\ fileIdx = 0
        /\ vals = EmptyMap
        /\ idx = 0
        /\ errs = << >>
        /\ ret = ""

NextCall ==
    \/ FormatEnvKey
    \/ SetValue
    \/ SetDefaultValue
    \/ StringSlice

SpecCall == InitCall /\ [][NextCall]_vars

----------------------------------------------------------------------------
(* C11 *)

LoggersPath == << "l", "o", "g", "g", "e", "r", "s", "[", "0", "]", ".",
                  "l", "o", "g", "_", "l", "e", "v", "e", "l" >>

\* the index in key of its j-th character other than "]"
NthKept(key, j) ==
    CHOOSE i \in DOMAIN key :
        key[i] # "]" /\ Cardinality({ k \in 1 .. i : key[k] # "]" }) = j

\* C11: the environment key of a path and a prefix is the prefix and "_" (if
\* the prefix is not empty) followed by the path in which "." and "[" have
\* become "_" and "]" is gone, all of it in upper case, the prefix too;
\* loggers[0].log_level gives LOGGERS_0_LOG_LEVEL, and with the prefix myapp
\* MYAPP_LOGGERS_0_LOG_LEVEL.
C11_EnvKeyFormat ==
    (pc = "return" /\ call.op = "formatEnvKey") =>
        LET x    == call.conf.envPrefix
            key  == call.key
            n    == IF x = << >> THEN 0 ELSE Len(x) + 1
            kept == Cardinality({ i \in DOMAIN key : key[i] # "]" })
        IN  /\ Len(out) = n + kept
            /\ \A i \in DOMAIN x : out[i] = UpperChar(x[i])
            /\ x # << >> => out[Len(x) + 1] = "_"
            /\ \A j \in 1 .. kept :
                  out[n + j] = (IF key[NthKept(key, j)] \in { ".", "[" } THEN "_"
                                ELSE UpperChar(key[NthKept(key, j)]))
            /\ \A i \in DOMAIN out : out[i] \notin Range(LowerChars)
            /\ (key = LoggersPath /\ x = << >>) =>
                  out = << "L", "O", "G", "G", "E", "R", "S", "_", "0", "_",
                           "L", "O", "G", "_", "L", "E", "V", "E", "L" >>
            /\ (key = LoggersPath /\ x = << "m", "y", "a", "p", "p" >>) =>
                  out = << "M", "Y", "A", "P", "P", "_", "L", "O", "G", "G", "E", "R", "S",
                           "_", "0", "_", "L", "O", "G", "_", "L", "E", "V", "E", "L" >>

\* the key of loggers[0].log_level with the prefix myapp has been formatted
C11_Witness ==
    /\ pc = "return"
    /\ call.op = "formatEnvKey"
    /\ call.key = LoggersPath
    /\ call.conf.envPrefix = << "m", "y", "a", "p", "p" >>
    /\ out = << "M", "Y", "A", "P", "P", "_", "L", "O", "G", "G", "E", "R", "S",
                "_", "0", "_", "L", "O", "G", "_", "L", "E", "V", "E", "L" >>

----------------------------------------------------------------------------
(* C12 *)

\* C12 as stated: whenever the default step runs on a field whose declared
\* type is bool or pointer to bool, it fails with a default-application error
\* and writes no boolean: the location holds what the environment step left.
\* (Coercing the same literal by setValue, as the environment step does, succeeds
\* when the literal is a boolean literal.)
C12_BoolNeverDefaulted ==
    \A i \in DOMAIN fields :
        (/\ fields[i].typ \in { "bool", "*bool" }
         /\ DefaultStepRuns(i)
         /\ isZero(fields[i].typ, AfterEnv(i).v)) =>
            /\ ErrAt(i) = "default"
            /\ cfg[i] = AfterEnv(i).v
            /\ fields[i].defaultVal \in TrueLits \cup FalseLits =>
                  Coerce(fields[i].typ, fields[i].defaultVal).ok

----------------------------------------------------------------------------
(* C13 *)

\* an optional sign followed by decimal digits
IsNumeral(s) ==
    /\ Len(s) > 0
    /\ IsDigits(IF s[1] \in { "+", "-" } THEN Tail(s) ELSE s)

\* the digits of a numeral, without sign and leading zeros
Magnitude(s) == StripZeros(IF s[1] \in { "+", "-" } THEN Tail(s) ELSE s)

\* 2^(w-1) and 2^w in decimal, for the widths of the model
HalfRange(w) ==
    CASE w = 8  -> << "1", "2", "8" >>
      [] w = 16 -> << "3", "2", "7", "6", "8" >>
      [] w = 64 -> IntLimit

FullRange(w) ==
    CASE w = 8  -> << "2", "5", "6" >>
      [] w = 16 -> << "6", "5", "5", "3", "6" >>
      [] w = 64 -> UintLimit

\* the numeral s denotes a value of the integer kind k
InRange(k, s) ==
    IF k \in IntKinds
    THEN IF s[1] = "-"
         THEN DecLess(Magnitude(s), HalfRange(Bits(k))) \/ Magnitude(s) = HalfRange(Bits(k))
         ELSE DecLess(Magnitude(s), HalfRange(Bits(k)))
    ELSE IF s[1] = "-"
         THEN Magnitude(s) = << "0" >>
         ELSE DecLess(Magnitude(s), FullRange(Bits(k)))

\* the value a numeral denotes
NumVal(s) ==
    IF s[1] = "-" THEN 0 - DigitsVal(Magnitude(s)) ELSE DigitsVal(Magnitude(s))

\* C13 as stated: coercing a literal into an integer field of any width either
\* stores exactly the value the literal denotes or fails; a literal that is
\* not a numeral, a numeral outside the range of the field's type, and a
\* negative numeral into an unsigned field all fail.
C13_IntCoercionExact ==
    (pc = "return" /\ call.op = "setValue" /\ Kind(call.typ) \in IntKinds \cup UintKinds) =>
        /\ out.ok => /\ IsNumeral(call.val)
                     /\ InRange(Kind(call.typ), call.val)
                     /\ out.v = NumVal(call.val)
        /\ ~out.ok => out.v = CallV
        /\ (Kind(call.typ) \in UintKinds /\ Len(call.val) > 0 /\ call.val[1] = "-") => ~out.ok

----------------------------------------------------------------------------
(* C14 *)

\* C14: setValue on a sequence field, with the tokens stringSlice parses from
\* the literal: if every token coerces into the element type, the field then
\* holds a sequence of exactly one element per token, the i-th being the
\* coerced i-th token, and nothing of what it held before; if some token does
\* not coerce, setValue fails (and the field keeps what it held).
C14_SliceReplaced ==
    (pc = "return" /\ call.op = "setValue" /\ Kind(call.typ) = "slice") =>
        LET ss == stringSlice(call.val)
            e  == Elem(call.typ)
        IN  IF \A i \in DOMAIN ss : Coerce(e, ss[i]).ok
            THEN /\ out.ok
                 /\ Len(out.v) = Len(ss)
                 /\ \A i \in DOMAIN ss : out.v[i] = Coerce(e, ss[i]).v
            ELSE /\ ~out.ok
                 /\ out.v = CallV

\* "[5,10,15]" was coerced into a []int that held two other elements
C14_Witness ==
    /\ pc = "return"
    /\ call.op = "setValue"
    /\ call.typ = "[]int"
    /\ call.val = << "[", "5", ",", "1", "0", ",", "1", "5", "]" >>
    /\ CallV = << 7, 8 >>
    /\ out = [ok |-> TRUE, v |-> << 5, 10, 15 >>]

----------------------------------------------------------------------------
(* C15 *)

\* the number of "[" less the number of "]" among the first i characters of s
Depth(s, i) ==
    Cardinality({ k \in 1 .. i : s[k] = "[" }) - Cardinality({ k \in 1 .. i : s[k] = "]" })

\* s stands between one pair of outer brackets
Wrapped(s) ==
    /\ Len(s) >= 2
    /\ s[1] = "[" /\ s[Len(s)] = "]"
    /\ \A i \in 1 .. Len(s) - 1 : Depth(s, i) > 0

\* s without its pair of outer brackets, if it has one
Unwrapped(s) == IF Wrapped(s) THEN SubSeq(s, 2, Len(s) - 1) ELSE s

\* the commas of s that stand outside every bracket pair
TopCommas(s) == { i \in DOMAIN s : s[i] = "," /\ Depth(s, i) = 0 }

\* the tokens joined by commas
RECURSIVE JoinTokens(_)
JoinTokens(ts) ==
    IF Len(ts) = 0 THEN << >>
    ELSE IF Len(ts) = 1 THEN ts[1]
    ELSE ts[1] \o << "," >> \o JoinTokens(Tail(ts))

\* C15: stringSlice returns the tokens of the literal in order: a pair of outer
\* brackets is stripped if present (one pair only), the tokens joined by commas
\* give back the rest, there is one more token than the rest has top-level
\* commas, and no token holds a top-level comma. "[5,10,15]" and "5,10,15"
\* give 5, 10, 15; "[[a-z]+,.*]" gives [a-z]+ and .*
C15_TopLevelTokens ==
    (pc = "return" /\ call.op = "stringSlice") =>
        LET body == Unwrapped(call.val)
        IN  /\ JoinTokens(out) = body
            /\ body # << >> => Len(out) = Cardinality(TopCommas(body)) + 1
            /\ \A i \in DOMAIN out : TopCommas(out[i]) = { }
            /\ call.val \in { << "[", "5", ",", "1", "0", ",", "1", "5", "]" >>,
                              << "5", ",", "1", "0", ",", "1", "5" >> } =>
                  out = << << "5" >>, << "1", "0" >>, << "1", "5" >> >>
            /\ call.val = << "[", "[", "a", "-", "z", "]", "+", ",", ".", "*", "]" >> =>
                  out = << << "[", "a", "-", "z", "]", "+" >>, << ".", "*" >> >>

\* "[[a-z]+,.*]" has been parsed into two tokens
C15_Witness ==
    /\ pc = "return"
    /\ call.op = "stringSlice"
    /\ call.val = << "[", "[", "a", "-", "z", "]", "+", ",", ".", "*", "]" >>
    /\ Len(out) = 2

----------------------------------------------------------------------------
(* The tree flattener, and processCfg on a target of nested structs         *)

\* the number of members of the root struct, and the most elements a sequence
\* of structs of the target holds
NumMembers == 2
MaxElems == 2

\* a leaf member of a struct: its identifier, its alternate name (empty if it
\* declares none), its type and its required and default tags
Leaf(name, alt, typ, req, def, dv) ==
    [name |-> name, alt |-> alt, typ |-> typ, required |-> req,
     setDefault |-> def, defaultVal |-> dv]

\* the struct types the members of the root are made of
Inners ==
    << << Leaf(<< "B" >>, << >>, "string", TRUE, FALSE, << >>) >>,
       << Leaf(<< "B" >>, << >>, "string", TRUE, FALSE, << >>),
          Leaf(<< "C" >>, << >>, "int", FALSE, TRUE, << "5" >>) >>,
       << Leaf(<< "D" >>, << "x" >>, "*int", FALSE, FALSE, << >>),
          Leaf(<< "E" >>, << "x" >>, "string", TRUE, FALSE, << >>) >> >>

\* the identifiers of the members of the root, by position; an embedded
\* member's identifier is the name of its type
MemberNames == << << "A" >>, << "C" >>, << "E" >>, << "G" >> >>

\* a member of the root: a leaf (of the type and tags of the first leaf of
\* Inners[inner]), a struct, a pointer to a struct (nil if n = 0) or a sequence
\* of n structs
Member(kind, embedded, alt, inner, n) ==
    [kind |-> kind, embedded |-> embedded, alt |-> alt, inner |-> inner, n |-> n]

Members ==
    { m \in [kind : { "leaf", "struct", "ptr", "slice" }, embedded : BOOLEAN,
             alt : { << >>, << "c", "c" >>, << "A" >>, << "a" >> },
             inner : DOMAIN Inners, n : 0 .. MaxElems] :
        /\ m.embedded => m.kind = "struct"
        /\ m.alt = << "a" >> => m.kind = "leaf"
        /\ m.kind \in { "leaf", "struct" } => m.n = 1
        /\ m.kind = "ptr" => m.n <= 1 }

\* the members that stand beside the member under study
OtherMembers ==
    { Member("leaf", FALSE, << >>, 1, 1),
      Member("struct", FALSE, << "A" >>, 1, 1),
      Member("slice", FALSE, << >>, 2, MaxElems) }

\* name(): the alternate name if one is declared, else the identifier
SegmentOf(name, alt) == IF alt # << >> THEN alt ELSE name

\* the segment of an embedded member left out unless it declares an alternate name
MemberSegmentUnlessEmbedded(i, m) ==
    IF m.embedded /\ m.alt = << >> THEN << >> ELSE SegmentOf(MemberNames[i], m.alt)

\* the path segment of the member at position i of the root; an embedded
\* member is named like any other, its identifier being the name of its type
MemberSegment(i, m) == SegmentOf(MemberNames[i], m.alt)

\* a path continued by a segment
Dot(path, seg) == IF path = << >> THEN seg ELSE path \o << "." >> \o seg

\* a member recursed into with a nil pointer allocated first
RecursedAllocating(m) == m.kind \in { "struct", "ptr" }

\* the member is a struct that is recursed into: a struct, or a pointer to a
\* struct that is not nil (a nil pointer is left as it is)
Recursed(m) == m.kind = "struct" \/ (m.kind = "ptr" /\ m.n = 1)

\* the members of the target that are nil pointers once it is flattened
NilAfterFlatten(ms) == [ i \in DOMAIN ms |-> ms[i].kind = "ptr" /\ ~Recursed(ms[i]) ]

\* the fields of one member of the root, at position i
MemberFields(i, m) ==
    LET seg   == MemberSegment(i, m)
        inner == Inners[m.inner]
        fld(path, l, e, k) ==
            [path |-> path, typ |-> l.typ, required |-> l.required,
             setDefault |-> l.setDefault, defaultVal |-> l.defaultVal,
             loc |-> << i, e, k >>]
    IN  CASE m.kind = "leaf" -> << fld(seg, inner[1], 0, 0) >>
          [] Recursed(m) ->
                [ k \in DOMAIN inner |->
                    fld(Dot(seg, SegmentOf(inner[k].name, inner[k].alt)),
                        inner[k], 0, k) ]
          [] m.kind = "ptr" /\ ~Recursed(m) -> << >>
          [] m.kind = "slice" ->
                [ x \in 1 .. (m.n * Len(inner)) |->
                    LET e == ((x - 1) \div Len(inner)) + 1
                        k == ((x - 1) % Len(inner)) + 1
                    IN  fld(Dot(seg \o << "[", DigitChars[e], "]" >>,
                                SegmentOf(inner[k].name, inner[k].alt)),
                            inner[k], e, k) ]

\* flattenCfg(cfg, tag): the fields of the members, in declaration order
RECURSIVE flattenFrom(_, _)
flattenFrom(ms, i) ==
    IF i > Len(ms) THEN << >>
    ELSE MemberFields(i, ms[i]) \o flattenFrom(ms, i + 1)

flattenCfg(ms) == flattenFrom(ms, 1)

\* the environments processCfg is run in: empty, or one variable, named as the
\* key of one of the target's fields or B, set to "7"
FlattenEnvs(f, ms) ==
    { << >> } \cup
    { [ k \in { key } |-> << "7" >> ] :
        key \in { formatEnvKey(f, flattenCfg(ms)[i].path) : i \in DOMAIN flattenCfg(ms) }
                \cup { << "B" >> } }

InitFlatten ==
    \E p \in 1 .. NumMembers, r \in Members,
       o \in [1 .. NumMembers -> OtherMembers], iv \in { "zero", "set" } :
        \E e \in FlattenEnvs(UseEnv(defaultCfg, << >>),
                             [ i \in 1 .. NumMembers |-> IF i = p THEN r ELSE o[i] ]) :
            /\ o[p] = Member("leaf", FALSE, << >>, 1, 1)
            /\ call = [op |-> "processCfg", iv |-> iv,
                       members |-> [ i \in 1 .. NumMembers |-> IF i = p THEN r ELSE o[i] ]]
            /\ out = << >>
            /\ conf = UseEnv(defaultCfg, << >>)
            /\ env = e
            /\ pc = "flatten"
            /\ isPtr = TRUE
            /\ fs = { }
            /\ broken = { }
            /\ fields = << >>
            /\ cfg = << >>
            /\ cfg0 = << >>
            /\ pre = << >>
            /\ filePaths = << >>
            /\ fileIdx = 0
            /\ vals = EmptyMap
            /\ idx = 0
            /\ errs = << >>
            /\ ret = ""

\* processCfg's first statements: the target is flattened, errs is made. The
\* locations of the fields hold the values the target came with; out records
\* which pointer members of the target are nil afterwards.
FlattenCfg ==
    /\ pc = "flatten"
    /\ fields' = flattenCfg(call.members)
    /\ cfg' = [ i \in DOMAIN flattenCfg(call.members) |->
                  InitVal(flattenCfg(call.members)[i].typ, call.iv) ]
    /\ cfg0' = cfg'
    /\ pre' = cfg'
    /\ idx' = 0
    /\ errs' = << >>
    /\ out' = NilAfterFlatten(call.members)
    /\ pc' = "process"
    /\ UNCHANGED << call, conf, isPtr, fs, broken, env,
                    filePaths, fileIdx, vals, ret >>

NextFlatten ==
    \/ FlattenCfg
    \/ ProcessField
    \/ ProcessCfgReturn

SpecFlatten == InitFlatten /\ [][NextFlatten]_vars

----------------------------------------------------------------------------
(* C16 *)

\* the locations of the leaves of a target: << member, element, leaf >>, the
\* element being 0 outside a sequence and the leaf 0 for a leaf of the root
Leaves(ms) ==
    { << i, 0, 0 >> : i \in { j \in DOMAIN ms : ms[j].kind = "leaf" } } \cup
    UNION { { << i, 0, k >> : k \in DOMAIN Inners[ms[i].inner] } :
              i \in { j \in DOMAIN ms : \/ ms[j].kind = "struct"
                                        \/ ms[j].kind = "ptr" /\ ms[j].n = 1 } } \cup
    UNION { { << i, e, k >> : e \in 1 .. ms[i].n, k \in DOMAIN Inners[ms[i].inner] } :
              i \in { j \in DOMAIN ms : ms[j].kind = "slice" } }

\* the processing pass has flattened the target
Flattened == call.op = "processCfg" /\ pc \in { "process", "done" }

\* the value the literal "7" stands for in the types of the leaves
SevenOf(t) ==
    CASE t = "string" -> << "7" >>
      [] t = "int"    -> 7
      [] t = "*int"   -> << 7 >>

\* the environment key of the leaf at location loc of a sequence of structs
ElemKey(ms, loc) ==
    ToUpper(SegmentOf(MemberNames[loc[1]], ms[loc[1]].alt)) \o
    << "_", DigitChars[loc[2]], "_" >> \o
    ToUpper(SegmentOf(Inners[ms[loc[1]].inner][loc[3]].name,
                      Inners[ms[loc[1]].inner][loc[3]].alt))

\* C16: the fields of a processing pass are the leaves reachable through
\* structs and sequences of structs, each exactly once, and each is processed
\* once; the leaf of the element of index i of a sequence has a path with the
\* segment [i] and an environment key with _i_, and it is set from the
\* variable of that name and from no other.
C16_EachLeafOnce ==
    Flattened =>
        /\ { fields[x].loc : x \in DOMAIN fields } = Leaves(call.members)
        /\ Len(fields) = Cardinality(Leaves(call.members))
        /\ pc = "done" => idx = Len(fields)
        /\ \A x \in DOMAIN fields :
              fields[x].loc[2] > 0 =>
                  LET loc == fields[x].loc
                      m   == call.members[loc[1]]
                      l   == Inners[m.inner][loc[3]]
                      key == ElemKey(call.members, loc)
                  IN  /\ fields[x].path =
                            SegmentOf(MemberNames[loc[1]], m.alt) \o
                            << "[", DigitChars[loc[2]], "]", "." >> \o
                            SegmentOf(l.name, l.alt)
                      /\ formatEnvKey(conf, fields[x].path) = key
                      /\ Processed(x) =>
                            IF key \in DOMAIN env
                            THEN cfg[x] = SevenOf(fields[x].typ)
                            ELSE cfg[x] # SevenOf(fields[x].typ)

\* A[1].B was set from A_1_B, and A[0].B was not
C16_Witness ==
    /\ Flattened /\ pc = "done"
    /\ DOMAIN env = { << "A", "_", "1", "_", "B" >> }
    /\ \E x, y \in DOMAIN fields :
          /\ fields[x].path = << "A", "[", "1", "]", ".", "B" >>
          /\ fields[y].path = << "A", "[", "0", "]", ".", "B" >>
          /\ cfg[x] = << "7" >>
          /\ cfg[y] = pre[y]

----------------------------------------------------------------------------
(* C17 *)

\* field x is a leaf of an embedded member of the root
InEmbedded(x) == call.members[fields[x].loc[1]].embedded

\* the segment of the leaf field x within its struct
LeafSegment(x) ==
    LET l == Inners[call.members[fields[x].loc[1]].inner][fields[x].loc[3]]
    IN  SegmentOf(l.name, l.alt)

\* C17 as stated: the leaves of an embedded member have no path segment for
\* the member, unless it declares an alternate name, which then is a segment:
\* leaf B of the untagged embedded A has the path B and the key B, and a leaf
\* of an embedded struct tagged cc has the path cc.<leaf>.
C17_EmbeddedAddsNoSegment ==
    Flattened =>
        \A x \in DOMAIN fields :
            InEmbedded(x) =>
                LET m == call.members[fields[x].loc[1]]
                IN  /\ fields[x].path = (IF m.alt = << >> THEN LeafSegment(x)
                                         ELSE m.alt \o << "." >> \o LeafSegment(x))
                    /\ formatEnvKey(conf, fields[x].path) =
                          (IF m.alt = << >> THEN ToUpper(LeafSegment(x))
                           ELSE ToUpper(m.alt) \o << "_" >> \o ToUpper(LeafSegment(x)))

\* C17, amended: the leaves of an embedded member have a path segment for the
\* member: its alternate name if it declares one, else its identifier, which
\* is the name of the embedded type. Leaf B of the untagged embedded A has the
\* path A.B and is set from the variable A_B (not from B); a leaf of an
\* embedded struct tagged cc has the path cc.<leaf> and the key CC_<LEAF>.
C17_EmbeddedNamedByType ==
    Flattened =>
        \A x \in DOMAIN fields :
            InEmbedded(x) =>
                LET i   == fields[x].loc[1]
                    m   == call.members[i]
                    seg == IF m.alt = << >> THEN MemberNames[i] ELSE m.alt
                    key == ToUpper(seg) \o << "_" >> \o ToUpper(LeafSegment(x))
                IN  /\ fields[x].path = seg \o << "." >> \o LeafSegment(x)
                    /\ formatEnvKey(conf, fields[x].path) = key
                    /\ Processed(x) =>
                          IF key \in DOMAIN env
                          THEN cfg[x] = SevenOf(fields[x].typ)
                          ELSE cfg[x] # SevenOf(fields[x].typ)

\* leaf B of the untagged embedded A was set from A_B
C17_Witness ==
    /\ Flattened /\ pc = "done"
    /\ call.members[1].embedded /\ call.members[1].alt = << >>
    /\ DOMAIN env = { << "A", "_", "B" >> }
    /\ fields[1].path = << "A", ".", "B" >>
    /\ cfg[1] = << "7" >>

----------------------------------------------------------------------------
(* C18 *)

\* the field of leaf k of the struct member i, 0 if the leaf is no field
FieldOf(i, k) ==
    IF \E x \in DOMAIN fields : fields[x].loc = << i, 0, k >>
    THEN CHOOSE x \in DOMAIN fields : fields[x].loc = << i, 0, k >>
    ELSE 0

\* the checks of leaf k of the struct member i have been applied: it is a
\* field, and with no variable set for it, a required leaf that is zero has the
\* required-validation error and a zero leaf with a default holds the default
\* (5, the one default of the leaves)
ChecksApplied(i, k) ==
    LET x == FieldOf(i, k)
    IN  /\ x # 0
        /\ (~EnvPresent(x) /\ isZero(fields[x].typ, pre[x])) =>
              /\ fields[x].required => ErrAt(x) = "required"
              /\ fields[x].setDefault => cfg[x] = 5

\* C18 as stated: when processing is over, a pointer-to-struct member that
\* was nil is not nil any more, and the defaults and required checks of the
\* fields of the struct it points to have been applied.
C18_NilPointerAllocated ==
    (Flattened /\ pc = "done") =>
        \A i \in DOMAIN call.members :
            (call.members[i].kind = "ptr" /\ call.members[i].n = 0) =>
                /\ ~out[i]
                /\ \A k \in DOMAIN Inners[call.members[i].inner] : ChecksApplied(i, k)

\* C18, amended: a pointer-to-struct member that is nil is left nil: it is not
\* allocated and not recursed into, none of the leaves of its struct is a
\* field, and no default or required check is applied to them. A pointer that
\* is not nil is recursed into, and the defaults and required checks of the
\* fields of its struct are applied.
C18_NilPointerLeftNil ==
    (Flattened /\ pc = "done") =>
        \A i \in DOMAIN call.members :
            call.members[i].kind = "ptr" =>
                IF call.members[i].n = 0
                THEN /\ out[i]
                     /\ \A x \in DOMAIN fields : fields[x].loc[1] # i
                ELSE /\ ~out[i]
                     /\ \A k \in DOMAIN Inners[call.members[i].inner] : ChecksApplied(i, k)

\* processCfg returned nil on a target with a nil pointer to a struct that has
\* a required leaf
C18_Witness ==
    /\ Flattened /\ pc = "done"
    /\ ret = "nil"
    /\ \E i \in DOMAIN call.members :
          /\ call.members[i].kind = "ptr" /\ call.members[i].n = 0
          /\ out[i]
          /\ Inners[call.members[i].inner][1].required

----------------------------------------------------------------------------
(* C19 *)

\* no two members of one struct of the target have the same path segment
SegmentsDistinct(ms) ==
    /\ \A i, j \in DOMAIN ms :
          i # j => MemberSegment(i, ms[i]) # MemberSegment(j, ms[j])
    /\ \A i \in DOMAIN ms :
          ms[i].kind # "leaf" =>
              \A k, l \in DOMAIN Inners[ms[i].inner] :
                  k # l => SegmentOf(Inners[ms[i].inner][k].name, Inners[ms[i].inner][k].alt) #
                           SegmentOf(Inners[ms[i].inner][l].name, Inners[ms[i].inner][l].alt)

\* the fields whose processing failed
Failing == { x \in DOMAIN fields : FailsOn(x) }

\* C19 as stated: no two fields of one flattening have the same path, so that
\* the fieldErrors hold one entry for each field that failed.
C19_PathsUnique ==
    Flattened =>
        /\ \A x, y \in DOMAIN fields : x # y => fields[x].path # fields[y].path
        /\ pc = "done" => Cardinality(DOMAIN errs) = Cardinality(Failing)

\* C19, amended: if no two members of one struct of the target have the same
\* path segment, no two fields of one flattening have the same path, and the
\* fieldErrors hold one entry for each field that failed, with that field's error.
C19_PathsUniqueIfSegmentsAre ==
    (Flattened /\ SegmentsDistinct(call.members)) =>
        /\ \A x, y \in DOMAIN fields : x # y => fields[x].path # fields[y].path
        /\ pc = "done" =>
              /\ Cardinality(DOMAIN errs) = Cardinality(Failing)
              /\ \A x \in Failing :
                    ErrAt(x) = processField(conf, env, fields[x], pre[x]).err

\* two elements of one sequence failed, and each has its entry
C19_Witness ==
    /\ Flattened /\ pc = "done"
    /\ SegmentsDistinct(call.members)
    /\ \E x, y \in Failing :
          /\ fields[x].loc[1] = fields[y].loc[1]
          /\ fields[x].loc[3] = fields[y].loc[3]
          /\ fields[x].loc[2] # fields[y].loc[2]
          /\ { fields[x].path, fields[y].path } \subseteq DOMAIN errs
          /\ fields[x].path # fields[y].path

----------------------------------------------------------------------------
(* C20 *)

\* C20: a processed field has gone through the conflict check, the
\* environment overlay, the required check and the default step in this order,
\* up to the first that failed. A conflict leaves the field as it was, the
\* environment unread. A variable that does not coerce gives the one error of
\* the field, and the field holds what the environment step left: no required
\* check and no default came after. The required check and the zero test of
\* the default judge the value the environment step left, so that a required
\* field that is zero but for its variable passes.
C20_StepsInOrder ==
    \A i \in DOMAIN fields :
        Processed(i) =>
            IF fields[i].required /\ fields[i].setDefault
            THEN ErrAt(i) = "conflict" /\ cfg[i] = pre[i]
            ELSE IF ~AfterEnv(i).ok
            THEN ErrAt(i) = "env" /\ cfg[i] = AfterEnv(i).v
            ELSE IF fields[i].required
            THEN /\ cfg[i] = AfterEnv(i).v
                 /\ ErrAt(i) = (IF isZero(fields[i].typ, AfterEnv(i).v)
                                THEN "required" ELSE "none")
            ELSE IF fields[i].setDefault /\ isZero(fields[i].typ, AfterEnv(i).v)
            THEN /\ ErrAt(i) \in { "none", "default" }
                 /\ ErrAt(i) = "none" =>
                       cfg[i] = setValue(fields[i].typ, AfterEnv(i).v, fields[i].defaultVal).v
            ELSE ErrAt(i) = "none" /\ cfg[i] = AfterEnv(i).v

\* a required field that was zero passed, its value being that of its variable
C20_Witness ==
    \E i \in DOMAIN fields :
        /\ Processed(i)
        /\ fields[i].required /\ ~fields[i].setDefault
        /\ isZero(fields[i].typ, pre[i])
        /\ EnvPresent(i)
        /\ ErrAt(i) = "none"
        /\ ~isZero(fields[i].typ, cfg[i])
        /\ cfg[i] = Coerce(fields[i].typ, EnvValue(i)).v

----------------------------------------------------------------------------
(* C21 *)

\* C21: setValue on a pointer location. If the pointer is nil, a pointee is
\* allocated at an address not in use, zero, and the literal is coerced into
\* it; if the pointer is not nil, nothing is allocated, the pointer holds the
\* address it held and the value at that address is the one overwritten (on a
\* failure it stays as it was). The other pointees are left alone, and the
\* pointer is not nil afterwards.
C21_PointeeAllocatedOnlyIfNil ==
    (pc = "return" /\ call.op = "setValue" /\ Kind(call.typ) = "ptr") =>
        LET e == Elem(call.typ)
            c == Coerce(e, call.val)
        IN  /\ out.p # 0
            /\ out.ok = c.ok
            /\ out.v = << out.h[out.p] >>
            /\ \A a \in DOMAIN CallHeap : a # out.p => out.h[a] = CallHeap[a]
            /\ IF CallPtr = 0
               THEN /\ out.p \notin DOMAIN CallHeap
                    /\ DOMAIN out.h = DOMAIN CallHeap \cup { out.p }
                    /\ out.h[out.p] = (IF c.ok THEN c.v ELSE ZeroOf(e))
               ELSE /\ out.p = CallPtr
                    /\ DOMAIN out.h = DOMAIN CallHeap
                    /\ out.h[out.p] = (IF c.ok THEN c.v ELSE CallHeap[CallPtr])

\* a pointer to 5 was coerced from "0": it points where it did, at 0 now
C21_Witness ==
    /\ pc = "return"
    /\ call.op = "setValue"
    /\ call.typ = "*int"
    /\ CallPtr = 1 /\ CallHeap[1] = 5
    /\ call.val = << "0" >>
    /\ out.ok /\ out.p = 1 /\ out.h[1] = 0

----------------------------------------------------------------------------
(* C22 *)

\* C22 as stated: a coercion that fails leaves the location as it was: a field
\* whose variable did not coerce holds the value it had before the environment
\* step, and a field whose default was not applied holds the value it had
\* before the default step, whatever its kind, a nil pointer included.
C22_FailedCoercionLeavesValue ==
    \A i \in DOMAIN fields :
        Processed(i) =>
            /\ ErrAt(i) = "env" => cfg[i] = pre[i]
            /\ ErrAt(i) = "default" => cfg[i] = AfterEnv(i).v

----------------------------------------------------------------------------
(* C23 *)

\* the environment key of field x
KeyOf(x) == formatEnvKey(conf, fields[x].path)

\* C23 as stated: within one processing pass, fields with distinct paths have
\* distinct environment keys, so that one variable never sets two fields.
C23_DistinctPathsDistinctKeys ==
    Flattened =>
        \A x, y \in DOMAIN fields :
            fields[x].path # fields[y].path => KeyOf(x) # KeyOf(y)

\* the characters the key has "_" for
Separators == { ".", "[", "_" }

\* two characters that the key does not tell apart
SameFolded(a, b) ==
    \/ a = b
    \/ a \in Separators /\ b \in Separators
    \/ \E i \in DOMAIN LowerChars :
          { a, b } = { LowerChars[i], UpperChars[i] }

\* two paths that are the same once the case of the letters is ignored, ".",
\* "[" and "_" are taken for one another and "]" is dropped
RECURSIVE FoldEq(_, _)
FoldEq(p, q) ==
    IF p # << >> /\ Head(p) = "]" THEN FoldEq(Tail(p), q)
    ELSE IF q # << >> /\ Head(q) = "]" THEN FoldEq(p, Tail(q))
    ELSE IF p = << >> \/ q = << >> THEN p = q
    ELSE SameFolded(Head(p), Head(q)) /\ FoldEq(Tail(p), Tail(q))

\* C23, amended: within one processing pass two fields have the same
\* environment key exactly when their paths are the same once the case of the
\* letters is ignored, ".", "[" and "_" are taken for one another and "]" is
\* dropped. Distinct paths can so have one key (the paths A and a both have the
\* key A), and a variable of that name then sets both fields.
C23_SameKeyIffPathsFoldEqual ==
    Flattened =>
        /\ idx = 0 =>
              \A x, y \in DOMAIN fields :
                  x < y =>
                      ((KeyOf(x) = KeyOf(y)) <=> FoldEq(fields[x].path, fields[y].path))
        /\ \A x \in 1 .. idx :
              KeyOf(x) \in DOMAIN env => cfg[x] = SevenOf(fields[x].typ)

\* the fields A and a have both been set from the variable A
C23_Witness ==
    /\ Flattened /\ pc = "done"
    /\ DOMAIN env = { << "A" >> }
    /\ \E x, y \in DOMAIN fields :
          /\ fields[x].path = << "A" >>
          /\ fields[y].path = << "a" >>
          /\ cfg[x] = << "7" >>
          /\ cfg[y] = << "7" >>

----------------------------------------------------------------------------
(* C24 *)

\* the second call of processCfg has returned
SecondDone == pc = "done" /\ call.op = "again"

\* C24 as stated: a second run on the same target, with the same options and
\* an unchanged environment, leaves the target as the first run left it and
\* returns the same set of failing paths.
C24_SecondRunSame ==
    SecondDone =>
        /\ cfg = out.cfg
        /\ DOMAIN errs = DOMAIN out.errs
        /\ ret = out.ret

----------------------------------------------------------------------------
(* C25 *)

\* the second of the two runs of Load has returned
TwinDone == pc = "done" /\ call.op = "twin"

\* two environments that hold the same for the key of every field
AgreeOnKeys(e1, e2) ==
    \A i \in DOMAIN fields :
        LookupEnv(e1, formatEnvKey(conf, fields[i].path)) =
        LookupEnv(e2, formatEnvKey(conf, fields[i].path))

\* C25: with the environment not enabled, Load with the same target, options
\* and files leaves the same target and returns the same result in any two
\* process environments; with it enabled, it does so in any two environments
\* that hold the same for every variable named as the key of a field: no other
\* variable has an influence.
C25_OnlyDerivedKeysMatter ==
    (TwinDone /\ (~conf.useEnv \/ AgreeOnKeys(env, call.env))) =>
            /\ cfg = out.cfg
            /\ errs = out.errs
            /\ ret = out.ret

\* with the environment not enabled and ./config.yaml the one file, Load has
\* run with S_F1 set to 7 and with S_F1 unset, and has left the file's 1 in
\* the leaf s.f1 both times
C25_Witness ==
    /\ TwinDone
    /\ ~conf.useEnv
    /\ fs = { Join(DefaultDir, DefaultFilename) }
    /\ call.env = << >>
    /\ DOMAIN env = { << "S", "_", "F", "1" >> }
    /\ env[<< "S", "_", "F", "1" >>] = << "7" >>
    /\ ret = "nil"
    /\ cfg[1] = 1
    /\ out.cfg[1] = 1

====
